---------------------------- MODULE Spec2Model ----------------------------
(***************************************************************************)
(* NADA server core: the analysis orchestrator (AudioProcessor), its alert *)
(* rules and the multi-channel NotificationSystem.                         *)
(*                                                                         *)
(* Numbers.  Every JavaScript number of the program is kept in hundredths  *)
(* (62 calls/min is 6200, a biodiversity score of 0.78 is 78).  A          *)
(* JavaScript value is a record [t, v]: t is "num" (v the value in         *)
(* hundredths), "nan", "inf" (+Infinity), "undef" (undefined or null) or   *)
(* "str" (a non-empty, non-numeric string).  The overall score before      *)
(* rounding is kept in thousandths, which is exact for these inputs.       *)
(*                                                                         *)
(* Fields the program carries but never branches on (species lists,        *)
(* confidence, noise level, message and recommendation texts, timestamps)  *)
(* are left out of the records.                                            *)
(***************************************************************************)
EXTENDS Integers, Sequences, FiniteSets, TLC

VARIABLES
    \* ---- AudioProcessor.processAudio, one request at a time ----
    pc,               \* position of the request in processAudio
    runs,             \* requests started so far (source of analysis ids)
    filename,         \* the upload's file name
    natureLMOutcome,  \* what natureLM.analyzeAudio did: returned a value or threw
    avesOutcome,      \* what aves.analyzeEnvironment did
    frogSlot,         \* Promise.all input 0, after its .catch handler
    envSlot,          \* Promise.all input 1, after its .catch handler
    fusion,           \* locals of generateWaterQualityAssessment
    analysis,         \* the ComprehensiveAnalysis built by processAudio
    alerts,           \* local array "alerts" of checkAndCreateAlerts
    errorLog,         \* console.error lines of the current request's catch blocks
    recording,        \* the recording that is being resubmitted, if any
    response,         \* what POST /audio/analyze answers
    \* ---- key/value store ----
    stored_analyses,      \* keys analysis:<id> that hold a record
    historical_analyses,  \* key historical_analyses
    daily_summary,        \* key daily_summary:<today>
    active_alerts,        \* key active_alerts
    recent_analyses,      \* key recent_analyses
    notifications,        \* keys notifications:<userId> and notifications:global
    \* ---- NotificationSystem.sendNotification, one call at a time ----
    npc,              \* position of the call in sendNotification
    sends,            \* sendNotification calls started so far
    call,             \* arguments of the call: payload, preferences, userId, clock
    chIdx,            \* index of the for-of loop over preferences.channels
    sent,             \* local array "sent"
    failed,           \* local array "failed"
    attempts,         \* send methods this call invoked, in order: loop index,
                      \* channel type, and whether the send threw
    result,           \* the value sendNotification returned
    \* ---- GeminiChatAssistant.processFarmerQuery, one call at a time ----
    apiKey,           \* GOOGLE_GEMINI_API_KEY is set (read once, by the constructor)
    gpc,              \* position of the call in processFarmerQuery
    queries,          \* processFarmerQuery calls started so far
    gcall,            \* arguments of the call: query and context
    attempt,          \* parameter "attempt" of the running makeGeminiRequest
    requests,         \* fetch calls this call has made
    sleeps,           \* backoff sleeps of this call, in order
    outcomes,         \* what the language service did on each fetch, in order
    gresult,          \* the value processFarmerQuery returned
    metadata          \* metadata of the answer of POST /query

\* Two analysis requests handled at the same time, from the point where each
\* has its assessment
VARIABLES
    cpc,              \* per request: the store call it makes next
    clocal            \* per request: what its last read of each key returned

VARIABLES
    \* ---- POST /audio/analyze up to its quality gate ----
    upload,           \* the uploaded file: extension, first bytes, size
    validation,       \* how far the endpoint got and what it answered at the gate
    \* ---- GeminiChatAssistant.testConnection ----
    tattempt,         \* loop variable "attempt" of testConnection
    testResult,       \* the value testConnection returned
    \* ---- NotificationSystem: environment ----
    channelKeys       \* channel types whose API key is set (read by the constructor)

audioVars == <<pc, runs, filename, natureLMOutcome, avesOutcome, frogSlot, envSlot,
               fusion, analysis, alerts, errorLog, recording,
               response>>
storeVars == <<stored_analyses, historical_analyses, daily_summary, active_alerts,
               recent_analyses, notifications>>
notifyVars == <<npc, sends, call, chIdx, sent, failed, attempts, result>>
geminiVars == <<apiKey, gpc, queries, gcall, attempt, requests, sleeps, outcomes, gresult,
                metadata>>
concurrentVars == <<cpc, clocal>>
gateVars == <<upload, validation>>
testVars == <<tattempt, testResult>>
restVars == <<gateVars, testVars, channelKeys>>
vars == <<audioVars, storeVars, notifyVars, geminiVars, concurrentVars, restVars>>

-----------------------------------------------------------------------------
(* Bounds of the model *)

\* analysis requests per behaviour
MaxRuns == 2
\* alerts already in the store when the server starts (0 or this many)
PriorAlerts == 19
\* sendNotification calls per behaviour
MaxSends == 1
\* longest preferences.channels list
MaxChannels == 2
\* processFarmerQuery calls per behaviour
MaxQueries == 1

(* Program constants *)

\* audio-processor.tsx:306  slice(0, 20)
AlertCap == 20
\* audio-processor.tsx:249  recent.splice(50)
HistoryCap == 50
\* part_000:148  existingNotifications.splice(50)
NotificationCap == 50
\* index.tsx:245  recentAnalyses.splice(20)
RecentCap == 20
\* audio-processor.tsx:94 and :164  Math.min(80, ...), in hundredths
MaxCallDensity == 8000
\* part_001:47-50  retryConfig
maxRetries == 3
baseDelay == 1000
maxDelay == 10000
backoffMultiplier == 2

-----------------------------------------------------------------------------
(* JavaScript values and the built-ins the program applies to them *)

Num(n)  == [t |-> "num", v |-> n]
NaN     == [t |-> "nan", v |-> 0]
Inf     == [t |-> "inf", v |-> 0]
Undef   == [t |-> "undef", v |-> 0]
Str     == [t |-> "str", v |-> 0]

\* typeof x === 'number' (NaN and Infinity are numbers)
TypeofNumber(x) == x.t \in {"num", "nan", "inf"}

\* truthiness: 0, NaN, undefined and null are falsy
Truthy(x) == x.t \in {"str", "inf"} \/ (x.t = "num" /\ x.v # 0)

\* x || y
Or(x, y) == IF Truthy(x) THEN x ELSE y

\* x >= n for a number n (in hundredths); false for NaN, undefined and strings
Ge(x, n) == x.t = "inf" \/ (x.t = "num" /\ x.v >= n)

\* x < n
Lt(x, n) == x.t = "num" /\ x.v < n

\* Math.round: to the nearest integer, halves towards +Infinity
MathRound(x) ==
    CASE x.t = "num" -> Num(((x.v + 50) \div 100) * 100)
      [] x.t = "inf" -> Inf
      [] OTHER       -> NaN

\* Math.max(lo, Math.min(hi, x)) for numbers lo <= hi
Clamp(lo, hi, x) ==
    CASE x.t = "num" -> Num(IF x.v < lo THEN lo ELSE IF x.v > hi THEN hi ELSE x.v)
      [] x.t = "inf" -> Num(hi)
      [] OTHER       -> NaN

-----------------------------------------------------------------------------
(* Inputs of an analysis request *)

\* File names: the text, the keywords its lower-case form contains, and the
\* sum of its character codes (filename.split('').reduce(...)).
Filenames ==
    { [name |-> "rec_0412.wav",    contains |-> {},        charSum |-> 988],
      [name |-> "field_poor.wav",  contains |-> {"poor"},  charSum |-> 1439],
      [name |-> "night_alert.wav", contains |-> {"alert"}, charSum |-> 1549] }

\* the filename argument left out (getFallbackEnvironmentalAnalysis())
NoFilename == [name |-> "", contains |-> {}, charSum |-> 0]

\* filename.toLowerCase().includes(word)
Includes(fn, word) == word \in fn.contains

\* Results an analyzer can hand back.  obj is FALSE for null, undefined or a
\* primitive; the fields of such a result are never read.
FrogRecord(cd, cc, wqi) ==
    [obj |-> TRUE, call_density |-> cd, call_count |-> cc,
     water_quality_indicator |-> wqi]
NotAnObjectFrog ==
    [obj |-> FALSE, call_density |-> Undef, call_count |-> Undef,
     water_quality_indicator |-> "undefined"]

EnvRecord(b, hq, eh) ==
    [obj |-> TRUE, biodiversity_score |-> b, habitat_quality |-> hq,
     ecosystem_health |-> eh]
NotAnObjectEnv ==
    [obj |-> FALSE, biodiversity_score |-> Undef, habitat_quality |-> "undefined",
     ecosystem_health |-> "undefined"]

CallDensityValues ==
    { Undef, Str, NaN, Inf, Num(-500), Num(0), Num(2950), Num(4950), Num(6200),
      Num(12000) }
CallCountValues == { Undef, Num(3500) }
FrogResults ==
    { FrogRecord(cd, cc, "good") : cd \in CallDensityValues, cc \in CallCountValues }
    \cup { FrogRecord(cd, Undef, "undefined") : cd \in {Undef, Str, Num(6200)} }
    \cup { NotAnObjectFrog }

BiodiversityValues ==
    { Undef, Str, NaN, Num(-20), Num(0), Num(25), Num(30), Num(49), Num(78),
      Num(150) }
EcosystemHealthValues == { "healthy", "stressed", "degraded", "unknown" }
EnvResults ==
    { EnvRecord(b, "good", eh) : b \in BiodiversityValues, eh \in EcosystemHealthValues }
    \cup { EnvRecord(Num(78), hq, "healthy") : hq \in {"excellent", "unknown"} }
    \cup { NotAnObjectEnv }

\* A settled analyzer promise: fulfilled with a value, or rejected.
NatureLMOutcomes ==
    { [threw |-> FALSE, value |-> r] : r \in FrogResults }
    \cup { [threw |-> TRUE, value |-> NotAnObjectFrog] }
AVESOutcomes ==
    { [threw |-> FALSE, value |-> r] : r \in EnvResults }
    \cup { [threw |-> TRUE, value |-> NotAnObjectEnv] }

\* The two analyzers are independent.  Every outcome of one is combined with a
\* few outcomes of the other: a rejection, a non-object, an ordinary result and
\* one result at the far end of the ranges.
CoreNatureLMOutcomes ==
    { o \in NatureLMOutcomes :
        \/ o.threw
        \/ o.value \in { NotAnObjectFrog, FrogRecord(Num(6200), Num(3500), "good"),
                          FrogRecord(Num(0), Undef, "good") } }
CoreAVESOutcomes ==
    { o \in AVESOutcomes :
        \/ o.threw
        \/ o.value \in { NotAnObjectEnv, EnvRecord(Num(78), "good", "healthy"),
                          EnvRecord(Num(150), "good", "unknown") } }
AnalyzerOutcomePair(f, e) == f \in CoreNatureLMOutcomes \/ e \in CoreAVESOutcomes

\* What the analyzers are taken to do with a given upload.  The file name only
\* matters to the fallbacks, so every outcome is combined with the plain file
\* name, and the other file names with the outcomes that lead to a fallback
\* and with one ordinary result.
NatureLMOutcomesFor(fn) ==
    IF fn.contains = {} THEN NatureLMOutcomes
    ELSE { o \in NatureLMOutcomes :
             \/ o.threw
             \/ o.value \in {NotAnObjectFrog, FrogRecord(Num(6200), Num(3500), "good")} }
AVESOutcomesFor(fn) ==
    IF fn.contains = {} THEN AVESOutcomes
    ELSE { o \in AVESOutcomes :
             \/ o.threw
             \/ o.value \in {NotAnObjectEnv, EnvRecord(Num(78), "good", "healthy")} }

-----------------------------------------------------------------------------
(* AudioProcessor: pure helpers *)

determineWaterQuality(callsPerMinute) ==
    IF Ge(callsPerMinute, 5000) THEN "good"
    ELSE IF Ge(callsPerMinute, 3000) THEN "warning"
    ELSE "alert"

getFallbackFrogAnalysis(fn) ==
    LET consistentSeed == fn.charSum % 100
        base == IF Includes(fn, "serdang") \/ Includes(fn, "good") THEN 62
                ELSE IF Includes(fn, "kampung") \/ Includes(fn, "warning") THEN 38
                ELSE IF Includes(fn, "sekinchan") \/ Includes(fn, "poor")
                        \/ Includes(fn, "alert") THEN 23
                ELSE 35
        variation == (consistentSeed % 6) - 3
        raw == base + variation
        callDensity == IF raw < 5 THEN 5 ELSE IF raw > 80 THEN 80 ELSE raw
    IN  FrogRecord(Num(callDensity * 100), Num(callDensity * 100),
                   determineWaterQuality(Num(callDensity * 100)))

getFallbackEnvironmentalAnalysis(fn) ==
    LET biodiversityScore ==
            IF Includes(fn, "serdang") \/ Includes(fn, "good") THEN 78
            ELSE IF Includes(fn, "kampung") \/ Includes(fn, "warning") THEN 52
            ELSE IF Includes(fn, "sekinchan") \/ Includes(fn, "poor") THEN 28
            ELSE 50
    IN  EnvRecord(Num(biodiversityScore),
                  IF biodiversityScore > 60 THEN "good"
                  ELSE IF biodiversityScore > 40 THEN "fair" ELSE "poor",
                  IF biodiversityScore > 60 THEN "healthy"
                  ELSE IF biodiversityScore > 40 THEN "stressed" ELSE "degraded")

validateAndSanitizeFrogAnalysis(a, fn) ==
    IF ~a.obj THEN getFallbackFrogAnalysis(fn)
    ELSE FrogRecord(
           IF TypeofNumber(a.call_density) THEN a.call_density
           ELSE IF TypeofNumber(a.call_count) THEN a.call_count ELSE Num(3000),
           IF TypeofNumber(a.call_count) THEN a.call_count
           ELSE IF TypeofNumber(a.call_density) THEN a.call_density ELSE Num(3000),
           IF a.water_quality_indicator \in {"good", "warning", "alert"}
           THEN a.water_quality_indicator
           ELSE determineWaterQuality(Or(Or(a.call_density, a.call_count), Num(3000))))

\* Variant: the environment sanitizer keeps whatever label the analyzer reported.
validateAndSanitizeEnvironmentalAnalysisLabelsKept(a) ==
    IF ~a.obj THEN getFallbackEnvironmentalAnalysis(NoFilename)
    ELSE EnvRecord(
           IF TypeofNumber(a.biodiversity_score)
           THEN Clamp(0, 100, a.biodiversity_score) ELSE Num(50),
           a.habitat_quality,
           a.ecosystem_health)

validateAndSanitizeEnvironmentalAnalysis(a) ==
    IF ~a.obj THEN getFallbackEnvironmentalAnalysis(NoFilename)
    ELSE EnvRecord(
           IF TypeofNumber(a.biodiversity_score)
           THEN Clamp(0, 100, a.biodiversity_score) ELSE Num(50),
           IF a.habitat_quality \in {"excellent", "good", "fair", "poor"}
           THEN a.habitat_quality ELSE "fair",
           IF a.ecosystem_health \in {"healthy", "stressed", "degraded"}
           THEN a.ecosystem_health ELSE "stressed")

\* Math.round(overallScore * 100): overallScore is in thousandths.  A score that
\* lies exactly between two hundredths is a binary floating-point value just
\* above or just below the half, so either neighbour can come out.
RoundToHundredths(thousandths) ==
    IF thousandths % 10 = 5
    THEN { thousandths \div 10, (thousandths \div 10) + 1 }
    ELSE { (thousandths + 5) \div 10 }

\* Variant: the frog factor with strict comparisons (> 50, > 30).
FrogScoreStrict(callDensity) ==
    IF Ge(callDensity, 5001) THEN 100
    ELSE IF Ge(callDensity, 3001) THEN 60 ELSE 20

\* the frog call density factor (lines 166-178)
FrogScore(callDensity) ==
    IF Ge(callDensity, 5000) THEN 100
    ELSE IF Ge(callDensity, 3000) THEN 60 ELSE 20

\* the environmental health factor (lines 199-210)
EnvironmentScore(ecosystemHealth) ==
    IF ecosystemHealth = "healthy" THEN 100
    ELSE IF ecosystemHealth = "stressed" THEN 50 ELSE 20

\* Variant: the weights 0.3, 0.4 and 0.3.
OverallScoreBiodiversityFirst(frogScore, biodiversityScore, environmentScore) ==
    (frogScore * 3) + (biodiversityScore * 4) + (environmentScore * 3)

\* line 213, in thousandths: the weights are 0.4, 0.3 and 0.3
OverallScore(frogScore, biodiversityScore, environmentScore) ==
    (frogScore * 4) + (biodiversityScore * 3) + (environmentScore * 3)

\* lines 216-219, on the score in thousandths
StatusOf(overallScore) ==
    IF overallScore >= 700 THEN "good"
    ELSE IF overallScore >= 400 THEN "warning" ELSE "alert"

\* generateWaterQualityAssessment without the final rounding: its locals.
\* The !frogAnalysis || !environmentalAnalysis branch is for null arguments;
\* both arguments are records here.
generateWaterQualityAssessment(frogAnalysis, environmentalAnalysis) ==
    LET callDensity ==
            Clamp(0, MaxCallDensity,
                  MathRound(Or(Or(frogAnalysis.call_density, frogAnalysis.call_count),
                               Num(0))))
        frogScore == FrogScore(callDensity)
        biodiversityScore == Or(environmentalAnalysis.biodiversity_score, Num(50))
        environmentScore == EnvironmentScore(environmentalAnalysis.ecosystem_health)
        overallScore == OverallScore(frogScore, biodiversityScore.v, environmentScore)
    IN  [callDensity |-> callDensity, frogScore |-> frogScore,
         biodiversityScore |-> biodiversityScore,
         environmentScore |-> environmentScore, overallScore |-> overallScore,
         status |-> StatusOf(overallScore)]

\* Variant: the stored call density rounded but not clamped.
finalCallDensityUnclamped(safeFrogAnalysis) ==
    MathRound(Or(Or(safeFrogAnalysis.call_density, safeFrogAnalysis.call_count),
                 Num(0)))

\* lines 93-117 of processAudio: the stored call density
finalCallDensity(safeFrogAnalysis) ==
    Clamp(0, MaxCallDensity,
          MathRound(Or(Or(safeFrogAnalysis.call_density, safeFrogAnalysis.call_count),
                       Num(0))))

\* lines 97-123 of processAudio: the ComprehensiveAnalysis record
BuildAnalysis(id, safeFrog, safeEnv, assessment, overall_score) ==
    [analysis_id |-> id,
     call_density |-> finalCallDensity(safeFrog),
     water_quality_indicator |-> safeFrog.water_quality_indicator,
     biodiversity_score |-> Clamp(0, 100, Or(safeEnv.biodiversity_score, Num(50))),
     habitat_quality |-> safeEnv.habitat_quality,
     ecosystem_health |-> safeEnv.ecosystem_health,
     overall_score |-> overall_score,
     status |-> assessment.status]

NoAnalysis ==
    [analysis_id |-> 0, call_density |-> Undef, water_quality_indicator |-> "",
     biodiversity_score |-> Undef, habitat_quality |-> "", ecosystem_health |-> "",
     overall_score |-> 0, status |-> ""]
NoFusion ==
    [callDensity |-> Undef, frogScore |-> 0, biodiversityScore |-> Undef,
     environmentScore |-> 0, overallScore |-> 0, status |-> ""]

-----------------------------------------------------------------------------
(* AudioProcessor.processAudio *)

PendingFrog == [state |-> "pending", value |-> NotAnObjectFrog]
PendingEnv  == [state |-> "pending", value |-> NotAnObjectEnv]
\* a settled value once the request has moved past the code that reads it
ConsumedFrog == [state |-> "consumed", value |-> NotAnObjectFrog]
ConsumedEnv  == [state |-> "consumed", value |-> NotAnObjectEnv]
NotCalledFrog == [threw |-> FALSE, value |-> NotAnObjectFrog]
NotCalledEnv  == [threw |-> FALSE, value |-> NotAnObjectEnv]
\* POST /audio/analyze has not answered yet
NoAnalyzeResponse == [status |-> 0, success |-> FALSE, analysis |-> NoAnalysis]
\* no recording is being resubmitted
NoRecording == [filename |-> NoFilename, natureLM |-> NotCalledFrog, aves |-> NotCalledEnv]

\* natureLM.analyzeAudio(...).catch(error => getFallbackFrogAnalysis(filename))
CatchNatureLM(outcome, fn) ==
    IF outcome.threw
    THEN [state |-> "fulfilled", value |-> getFallbackFrogAnalysis(fn)]
    ELSE [state |-> "fulfilled", value |-> outcome.value]

\* Variant: aves.analyzeEnvironment(...) with no .catch handler of its own.
CatchAVESMissing(outcome, fn) ==
    IF outcome.threw
    THEN [state |-> "rejected", value |-> NotAnObjectEnv]
    ELSE [state |-> "fulfilled", value |-> outcome.value]

\* aves.analyzeEnvironment(...).catch(error => getFallbackEnvironmentalAnalysis(filename))
CatchAVES(outcome, fn) ==
    IF outcome.threw
    THEN [state |-> "fulfilled", value |-> getFallbackEnvironmentalAnalysis(fn)]
    ELSE [state |-> "fulfilled", value |-> outcome.value]

\* first n elements of s (Array.prototype.slice(0, n), splice(n))
Take(s, n) == SubSeq(s, 1, IF Len(s) < n THEN Len(s) ELSE n)

\* Alerts the store holds when the server starts: left by earlier requests
\* whose biodiversity score was below 0.3, newest first.
PriorAlertList(n) ==
    [k \in 1..n |-> [type |-> "biodiversity", severity |-> "medium", analysis_id |-> 0 - k]]

\* Ids of the n requests before the server started, newest first.
PriorIds(n) == [k \in 1..n |-> 0 - k]

\* An in-app log of n earlier notifications of a user, newest first.
PriorNotifications(n, userId) ==
    [k \in 1..n |-> [id |-> 0 - k, user_id |-> userId, read |-> FALSE]]

\* The deployment when the server starts: a new one without a Gemini
\* credential and with an empty store, or one with the credential whose store is
\* as long use has left it, with the history lists and the log of farmer1 at
\* their caps.
Deployments ==
    { [apiKey |-> FALSE, channelKeys |-> {},
       stored_analyses |-> {}, historical_analyses |-> <<>>,
       recent_analyses |-> <<>>,
       active_alerts |-> PriorAlertList(0),
       notifications |-> [k \in {"global", "farmer1"} |-> <<>>]],
      [apiKey |-> TRUE, channelKeys |-> {"push", "email", "sms"},
       stored_analyses |-> { 0 - k : k \in 1..HistoryCap },
       historical_analyses |-> PriorIds(HistoryCap),
       recent_analyses |-> PriorIds(RecentCap),
       active_alerts |-> PriorAlertList(PriorAlerts),
       notifications |-> [k \in {"global", "farmer1"} |->
                            IF k = "farmer1"
                            THEN PriorNotifications(NotificationCap, "farmer1")
                            ELSE PriorNotifications(2, "none")]] }

\* processAudio up to the two analyzer calls (lines 62-81)
StartProcessAudio ==
    /\ pc = "idle"
    /\ runs < MaxRuns
    /\ \E fn \in Filenames : filename' = fn
    /\ runs' = runs + 1
    /\ pc' = "analyzing"
    /\ natureLMOutcome' = NotCalledFrog
    /\ avesOutcome' = NotCalledEnv
    /\ frogSlot' = PendingFrog
    /\ envSlot' = PendingEnv
    /\ fusion' = NoFusion
    /\ analysis' = NoAnalysis
    /\ alerts' = <<>>
    /\ errorLog' = {}
    /\ UNCHANGED <<recording, response, storeVars, notifyVars, geminiVars,
                   concurrentVars, restVars>>

\* the NatureLM branch settles (lines 73-76)
NatureLMSettles ==
    /\ pc = "analyzing"
    /\ frogSlot.state = "pending"
    /\ \E o \in (IF recording = NoRecording THEN NatureLMOutcomesFor(filename)
                ELSE {recording.natureLM}) :
         /\ \/ recording # NoRecording
            \/ envSlot.state = "pending"
            \/ AnalyzerOutcomePair(o, avesOutcome)
         /\ natureLMOutcome' = o
         /\ frogSlot' = CatchNatureLM(o, filename)
    /\ UNCHANGED <<pc, runs, filename, avesOutcome, envSlot, fusion, analysis, alerts,
                   errorLog, recording, response, storeVars, notifyVars, geminiVars,
                   concurrentVars, restVars>>

\* the AVES branch settles (lines 77-80)
AVESSettles ==
    /\ pc = "analyzing"
    /\ envSlot.state = "pending"
    /\ \E o \in (IF recording = NoRecording THEN AVESOutcomesFor(filename)
                ELSE {recording.aves}) :
         /\ \/ recording # NoRecording
            \/ frogSlot.state = "pending"
            \/ AnalyzerOutcomePair(natureLMOutcome, o)
         /\ avesOutcome' = o
         /\ envSlot' = CatchAVES(o, filename)
    /\ UNCHANGED <<pc, runs, filename, natureLMOutcome, frogSlot, fusion, analysis, alerts,
                   errorLog, recording, response, storeVars, notifyVars, geminiVars,
                   concurrentVars, restVars>>

\* Promise.all settles; sanitize, fuse, build the record (lines 72, 83-123).
\* Promise.all rejects as soon as one input rejects, and the catch of line 134
\* then fails the request.
JoinAndAssess ==
    /\ pc = "analyzing"
    /\ \/ frogSlot.state = "rejected"
       \/ envSlot.state = "rejected"
       \/ (frogSlot.state = "fulfilled" /\ envSlot.state = "fulfilled")
    /\ IF frogSlot.state = "rejected" \/ envSlot.state = "rejected"
       THEN /\ pc' = "failed"
            /\ errorLog' = errorLog \cup {"Audio processing failed"}
            /\ UNCHANGED <<fusion, analysis>>
       ELSE LET safeFrogAnalysis ==
                    validateAndSanitizeFrogAnalysis(frogSlot.value, filename)
                safeEnvironmentalAnalysis ==
                    validateAndSanitizeEnvironmentalAnalysis(envSlot.value)
                assessment ==
                    generateWaterQualityAssessment(safeFrogAnalysis,
                                                   safeEnvironmentalAnalysis)
            IN  /\ fusion' = assessment
                /\ \E overall_score \in RoundToHundredths(assessment.overallScore) :
                     analysis' = BuildAnalysis(runs, safeFrogAnalysis,
                                               safeEnvironmentalAnalysis, assessment,
                                               overall_score)
                /\ pc' = "store"
                /\ UNCHANGED errorLog
    /\ UNCHANGED <<runs, filename, natureLMOutcome, avesOutcome, frogSlot, envSlot,
                   alerts, recording, response, storeVars, notifyVars, geminiVars,
                   concurrentVars, restVars>>

\* storeAnalysis (lines 240-266).  A store call that throws is caught and logged.
\* The failure modelled here is the store being down from the first write on.
StoreAnalysis ==
    /\ pc = "store"
    /\ \E storeThrows \in BOOLEAN :
         IF storeThrows
         THEN /\ errorLog' = errorLog \cup {"Failed to store historical analysis"}
              /\ UNCHANGED <<stored_analyses, historical_analyses, daily_summary>>
         ELSE /\ stored_analyses' = stored_analyses \cup {analysis.analysis_id}
              /\ historical_analyses' =
                     Take(<<analysis.analysis_id>> \o historical_analyses, HistoryCap)
              /\ daily_summary' =
                     [analyses |-> Append(daily_summary.analyses, analysis.analysis_id),
                      total_count |-> daily_summary.total_count + 1]
              /\ UNCHANGED errorLog
    /\ pc' = "alerts"
    /\ natureLMOutcome' = [natureLMOutcome EXCEPT !.value = NotAnObjectFrog]
    /\ avesOutcome' = [avesOutcome EXCEPT !.value = NotAnObjectEnv]
    /\ frogSlot' = ConsumedFrog
    /\ envSlot' = ConsumedEnv
    /\ UNCHANGED <<runs, filename, fusion, analysis, alerts, recording, response,
                   active_alerts,
                   recent_analyses, notifications, notifyVars, geminiVars,
                   concurrentVars, restVars>>

\* Variant: the biodiversity rule as an else-branch of the water quality rule.
NewAlertsExclusive(a) ==
    IF a.status = "alert"
    THEN << [type |-> "water_quality", severity |-> "high",
             analysis_id |-> a.analysis_id] >>
    ELSE IF Lt(a.biodiversity_score, 30)
    THEN << [type |-> "biodiversity", severity |-> "medium",
             analysis_id |-> a.analysis_id] >>
    ELSE << >>

\* the alerts array built by checkAndCreateAlerts (lines 273-301)
NewAlerts(a) ==
    (IF a.status = "alert"
     THEN << [type |-> "water_quality", severity |-> "high",
              analysis_id |-> a.analysis_id] >>
     ELSE << >>)
    \o
    (IF Lt(a.biodiversity_score, 30)
     THEN << [type |-> "biodiversity", severity |-> "medium",
              analysis_id |-> a.analysis_id] >>
     ELSE << >>)

\* Variant: [...existingAlerts, ...alerts].slice(0, 20)
UpdatedAlertsAppended(newAlerts, existingAlerts) ==
    Take(existingAlerts \o newAlerts, AlertCap)

\* [...alerts, ...existingAlerts].slice(0, 20) (line 306)
UpdatedAlerts(newAlerts, existingAlerts) ==
    Take(newAlerts \o existingAlerts, AlertCap)

\* Variant: the new alerts are written over the stored list.
CheckAndCreateAlertsOverwriting ==
    /\ pc = "alerts"
    /\ alerts' = NewAlerts(analysis)
    /\ IF Len(alerts') > 0
       THEN \E storeThrows \in BOOLEAN :
              IF storeThrows
              THEN /\ errorLog' = errorLog \cup {"Failed to create alerts"}
                   /\ UNCHANGED active_alerts
              ELSE /\ active_alerts' = Take(alerts', AlertCap)
                   /\ UNCHANGED errorLog
       ELSE UNCHANGED <<active_alerts, errorLog>>
    /\ pc' = "done"
    /\ UNCHANGED <<runs, filename, natureLMOutcome, avesOutcome, frogSlot, envSlot,
                   fusion, analysis, recording, response, stored_analyses, historical_analyses,
                   daily_summary, recent_analyses, notifications, notifyVars,
                   geminiVars,
                   concurrentVars, restVars>>

\* checkAndCreateAlerts (lines 271-313)
CheckAndCreateAlerts ==
    /\ pc = "alerts"
    /\ alerts' = NewAlerts(analysis)
    /\ IF Len(alerts') > 0
       THEN \E storeThrows \in BOOLEAN :
              IF storeThrows
              THEN /\ errorLog' = errorLog \cup {"Failed to create alerts"}
                   /\ UNCHANGED active_alerts
              ELSE /\ active_alerts' = UpdatedAlerts(alerts', active_alerts)
                   /\ UNCHANGED errorLog
       ELSE UNCHANGED <<active_alerts, errorLog>>
    /\ pc' = "done"
    /\ UNCHANGED <<runs, filename, natureLMOutcome, avesOutcome, frogSlot, envSlot,
                   fusion, analysis, recording, response, stored_analyses, historical_analyses,
                   daily_summary, recent_analyses, notifications, notifyVars,
                   geminiVars,
                   concurrentVars, restVars>>

\* return analysis (line 132): processAudio hands the record to the endpoint and
\* its locals are gone
ReturnAnalysis ==
    /\ pc = "done"
    /\ pc' = "returned"
    /\ natureLMOutcome' = NotCalledFrog
    /\ avesOutcome' = NotCalledEnv
    /\ frogSlot' = PendingFrog
    /\ envSlot' = PendingEnv
    /\ fusion' = NoFusion
    /\ alerts' = <<>>
    /\ UNCHANGED <<runs, filename, analysis, errorLog, recording, response,
                   storeVars,
                   notifyVars, geminiVars,
                   concurrentVars, restVars>>

\* recentAnalyses.unshift(newAnalysis); splice(20) (index.tsx 241-246)
UpdatedRecentAnalyses(newAnalysis, recentAnalyses) ==
    Take(<<newAnalysis>> \o recentAnalyses, RecentCap)

\* POST /audio/analyze after processAudio has returned (index.tsx 211-268):
\* put the analysis in front of recent_analyses and answer.  A store call that
\* throws here is caught by the endpoint's catch, which answers 500.
AnalyzeEndpointResponds ==
    /\ pc = "returned"
    /\ \E storeThrows \in BOOLEAN :
         IF storeThrows
         THEN /\ errorLog' = errorLog \cup {"Audio analysis failed"}
              /\ response' = [status |-> 500, success |-> FALSE, analysis |-> NoAnalysis]
              /\ UNCHANGED recent_analyses
         ELSE /\ recent_analyses' =
                     UpdatedRecentAnalyses(analysis.analysis_id, recent_analyses)
              /\ response' = [status |-> 200, success |-> TRUE, analysis |-> analysis]
              /\ UNCHANGED errorLog
    /\ pc' = "responded"
    /\ UNCHANGED <<runs, filename, natureLMOutcome, avesOutcome, frogSlot, envSlot,
                   fusion, analysis, alerts, recording, stored_analyses,
                   historical_analyses, daily_summary, active_alerts, notifications,
                   notifyVars, geminiVars,
                   concurrentVars, restVars>>

\* getAnalysisHistory (lines 508-523): the first "limit" elements of the key
\* recent_analyses are used as ids, and the records found under analysis:<id>
\* are returned, here by their ids.  The elements of recent_analyses are the
\* analysis objects the endpoint put there (index.tsx 232-249), so the
\* template string `analysis:${id}` holds String(object).
getAnalysisHistory(limit) ==
    LET recentIds == Take(recent_analyses, limit)
        ObjectToString(object) == "[object Object]"
        keyOf(element) == "analysis:" \o ObjectToString(element)
        stored(key) == { id \in stored_analyses : "analysis:" \o ToString(id) = key }
        found == SelectSeq(recentIds, LAMBDA element : stored(keyOf(element)) # {})
    IN  [i \in 1..Len(found) |-> CHOOSE id \in stored(keyOf(found[i])) : TRUE]

\* the response is out; the server is ready for the next request
RequestFinished ==
    /\ pc = "responded"
    /\ pc' = "idle"
    /\ filename' = NoFilename
    /\ natureLMOutcome' = NotCalledFrog
    /\ avesOutcome' = NotCalledEnv
    /\ frogSlot' = PendingFrog
    /\ envSlot' = PendingEnv
    /\ fusion' = NoFusion
    /\ analysis' = NoAnalysis
    /\ alerts' = <<>>
    /\ errorLog' = {}
    /\ response' = NoAnalyzeResponse
    /\ UNCHANGED <<runs, recording, storeVars, notifyVars, geminiVars,
                   concurrentVars, restVars>>

\* The same recording is uploaded again: the file name is the same and each
\* analyzer does on it what it did before.
Recordings ==
    { [filename |-> fn, natureLM |-> f, aves |-> e] :
        fn \in { f \in Filenames : f.contains = {} }, f \in NatureLMOutcomes,
        e \in { o \in AVESOutcomes : ~o.threw /\ o.value.biodiversity_score = Num(25) } }

\* processAudio up to the two analyzer calls, for a recording that is
\* submitted and then submitted again (lines 62-81)
SubmitRecording ==
    /\ pc = "idle"
    /\ runs < MaxRuns
    /\ \E r \in (IF recording = NoRecording THEN Recordings ELSE {recording}) :
         /\ recording' = r
         /\ filename' = r.filename
    /\ runs' = runs + 1
    /\ pc' = "analyzing"
    /\ natureLMOutcome' = NotCalledFrog
    /\ avesOutcome' = NotCalledEnv
    /\ frogSlot' = PendingFrog
    /\ envSlot' = PendingEnv
    /\ fusion' = NoFusion
    /\ analysis' = NoAnalysis
    /\ alerts' = <<>>
    /\ errorLog' = {}
    /\ UNCHANGED <<response, storeVars, notifyVars, geminiVars,
                   concurrentVars, restVars>>

-----------------------------------------------------------------------------
(* NotificationSystem: inputs *)

\* a clock time or a "HH:MM" preference string, as its two numbers
Time(h, m) == [hh |-> h, mm |-> m]

PayloadTypes == { "water_quality", "biodiversity", "system", "summary" }
Severities   == { "low", "medium", "high", "critical" }
ChannelTypes == { "in_app", "push", "email", "sms" }

\* userId is optional; "none" stands for the argument left out
UserIds == { "none", "farmer1" }

Channel(type, enabled, address) ==
    [type |-> type, enabled |-> enabled, address |-> address]

\* One entry of preferences.channels.  address says whether config.email (for an
\* email entry) or config.phone (for an sms entry) is set.
ChannelEntries ==
    { Channel(t, e, FALSE) : t \in ChannelTypes, e \in BOOLEAN }
    \cup { Channel(t, e, TRUE) : t \in {"email", "sms"}, e \in BOOLEAN }

\* every channels list of at most n entries
ChannelLists(n) == UNION { [1..k -> ChannelEntries] : k \in 0..n }

AlertTypeValues ==
    [water_quality_critical : BOOLEAN, water_quality_warning : BOOLEAN,
     biodiversity_low : BOOLEAN, system_updates : BOOLEAN, daily_summary : BOOLEAN]

QuietHours(enabled, start, end) ==
    [enabled |-> enabled, start_time |-> start, end_time |-> end]

QuietHoursValues ==
    { QuietHours(FALSE, Time(22, 0), Time(6, 0)),
      QuietHours(TRUE, Time(22, 0), Time(6, 0)),
      QuietHours(TRUE, Time(9, 0), Time(17, 0)) }

ClockValues == { Time(23, 30), Time(5, 0), Time(12, 0) }

\* NotificationSystem.createDefaultPreferences
createDefaultPreferences ==
    [channels |-> << Channel("in_app", TRUE, FALSE), Channel("push", FALSE, FALSE),
                     Channel("email", FALSE, FALSE), Channel("sms", FALSE, FALSE) >>,
     alert_types |-> [water_quality_critical |-> TRUE, water_quality_warning |-> TRUE,
                      biodiversity_low |-> TRUE, system_updates |-> FALSE,
                      daily_summary |-> FALSE],
     quiet_hours |-> QuietHours(TRUE, Time(22, 0), Time(6, 0))]

Payloads == [type : PayloadTypes, severity : Severities]

\* Calls that vary the payload, the alert-type flags, the quiet hours and the
\* clock over two channel lists.
FilterCalls ==
    [payload : Payloads,
     preferences : [channels : { createDefaultPreferences.channels,
                                 << Channel("in_app", TRUE, FALSE),
                                    Channel("email", TRUE, TRUE) >> },
                    alert_types : AlertTypeValues,
                    quiet_hours : QuietHoursValues],
     userId : UserIds,
     now : ClockValues]

\* Calls that vary the channels list and the user over the default filters, at
\* noon and with payloads of one severity.
ChannelCalls ==
    [payload : { p \in Payloads : p.severity = "high" },
     preferences : [channels : ChannelLists(MaxChannels),
                    alert_types : { createDefaultPreferences.alert_types },
                    quiet_hours : { createDefaultPreferences.quiet_hours }],
     userId : UserIds,
     now : { Time(12, 0) }]

NotificationCalls == FilterCalls \cup ChannelCalls

\* The calls POST /notifications/test makes (index.tsx 322-340): the synthetic
\* payload, with the preferences stored for the user or the default ones.
TestCalls ==
    { c \in NotificationCalls : c.payload = [type |-> "system", severity |-> "low"] }

NoCall ==
    [payload |-> [type |-> "system", severity |-> "low"],
     preferences |-> createDefaultPreferences, userId |-> "none", now |-> Time(0, 0)]
NoResult == [sent |-> <<>>, failed |-> <<>>, in_quiet_hours |-> FALSE]

-----------------------------------------------------------------------------
(* NotificationSystem: helpers *)

\* hours * 60 + minutes
MinuteOfDay(t) == (t.hh * 60) + t.mm

\* Variant: quiet hours without the overnight case (lines 358-359 left out).
isInQuietHoursSameDay(preferences, now) ==
    IF ~preferences.quiet_hours.enabled THEN FALSE
    ELSE LET currentTime == MinuteOfDay(now)
             startTime == MinuteOfDay(preferences.quiet_hours.start_time)
             endTime == MinuteOfDay(preferences.quiet_hours.end_time)
         IN  currentTime >= startTime /\ currentTime <= endTime

\* isInQuietHours (lines 345-363)
isInQuietHours(preferences, now) ==
    IF ~preferences.quiet_hours.enabled THEN FALSE
    ELSE LET currentTime == MinuteOfDay(now)
             startTime == MinuteOfDay(preferences.quiet_hours.start_time)
             endTime == MinuteOfDay(preferences.quiet_hours.end_time)
         IN  IF startTime > endTime
             THEN currentTime >= startTime \/ currentTime <= endTime
             ELSE currentTime >= startTime /\ currentTime <= endTime

\* isAlertTypeEnabled (lines 368-381)
isAlertTypeEnabled(alertType, preferences) ==
    CASE alertType = "water_quality" ->
           preferences.alert_types.water_quality_critical
           \/ preferences.alert_types.water_quality_warning
      [] alertType = "biodiversity" -> preferences.alert_types.biodiversity_low
      [] alertType = "system" -> preferences.alert_types.system_updates
      [] alertType = "summary" -> preferences.alert_types.daily_summary
      [] OTHER -> TRUE

\* the store key sendInAppNotification writes
\* Variant: one log for everybody, whatever the userId.
NotificationKeyShared(userId) == "global"

NotificationKey(userId) == IF userId = "none" THEN "global" ELSE userId

\* the list sendInAppNotification writes back (lines 132-152)
sendInAppNotification(existingNotifications, payloadId, userId) ==
    Take(<< [id |-> payloadId, user_id |-> userId, read |-> FALSE] >>
           \o existingNotifications,
         NotificationCap)

-----------------------------------------------------------------------------
(* NotificationSystem.sendNotification *)

Attempt(idx, type, threw) == [idx |-> idx, type |-> type, threw |-> threw]

\* Variant: the loop body without its try/catch; the error leaves sendNotification.
ChannelErrorPropagates(failedList, channelType) ==
    [failed |-> failedList, npc |-> "thrown"]

\* the catch block of the loop body (lines 118-121): record the channel and go on
ChannelErrorCaught(failedList, channelType) ==
    [failed |-> Append(failedList, channelType), npc |-> "loop"]

\* Whether a send method that returned did something with the payload.
\* sendInAppNotification writes it to the log (lines 132-153); the push, email
\* and sms methods warn and return when their API key is not set, and pass the
\* payload on otherwise (lines 158-236).
Delivered(a) ==
    /\ ~a.threw
    /\ a.type = "in_app" \/ a.type \in channelKeys

\* entry of sendNotification up to the loop (lines 70-86)
SendNotification ==
    /\ npc = "idle"
    /\ sends < MaxSends
    /\ \E c \in NotificationCalls :
         /\ call' = c
         /\ IF isInQuietHours(c.preferences, c.now) /\ c.payload.severity # "critical"
            THEN /\ result' = [sent |-> <<>>, failed |-> <<>>, in_quiet_hours |-> TRUE]
                 /\ npc' = "returned"
            ELSE IF ~isAlertTypeEnabled(c.payload.type, c.preferences)
            THEN /\ result' = [sent |-> <<>>, failed |-> <<>>, in_quiet_hours |-> FALSE]
                 /\ npc' = "returned"
            ELSE /\ result' = NoResult
                 /\ npc' = "loop"
    /\ sends' = sends + 1
    /\ chIdx' = 1
    /\ sent' = <<>>
    /\ failed' = <<>>
    /\ attempts' = <<>>
    /\ UNCHANGED <<audioVars, storeVars, geminiVars,
                   concurrentVars, restVars>>

\* one iteration of the loop over preferences.channels (lines 89-122).  The
\* in-app send reads and writes the store and throws when the store does; the
\* push, email and sms sends only format and log the payload.
DispatchChannel ==
    /\ npc = "loop"
    /\ chIdx <= Len(call.preferences.channels)
    /\ LET channel == call.preferences.channels[chIdx]
           key == NotificationKey(call.userId)
       IN  IF ~channel.enabled
           THEN UNCHANGED <<npc, sent, failed, attempts, notifications>>
           ELSE CASE channel.type = "in_app" ->
                       \E storeThrows \in BOOLEAN :
                          /\ attempts' = Append(attempts,
                                                Attempt(chIdx, "in_app", storeThrows))
                          /\ IF storeThrows
                             THEN LET caught == ChannelErrorCaught(failed, channel.type)
                                  IN  /\ failed' = caught.failed
                                      /\ npc' = caught.npc
                                      /\ UNCHANGED <<sent, notifications>>
                             ELSE /\ notifications' =
                                        [notifications EXCEPT ![key] =
                                            sendInAppNotification(notifications[key],
                                                                  sends, call.userId)]
                                  /\ sent' = Append(sent, "in_app")
                                  /\ UNCHANGED <<npc, failed>>
                  [] channel.type = "push" ->
                       /\ attempts' = Append(attempts, Attempt(chIdx, "push", FALSE))
                       /\ sent' = Append(sent, "push")
                       /\ UNCHANGED <<npc, failed, notifications>>
                  [] channel.type = "email" ->
                       IF channel.address
                       THEN /\ attempts' = Append(attempts, Attempt(chIdx, "email", FALSE))
                            /\ sent' = Append(sent, "email")
                            /\ UNCHANGED <<npc, failed, notifications>>
                       ELSE UNCHANGED <<npc, sent, failed, attempts, notifications>>
                  [] channel.type = "sms" ->
                       IF channel.address
                       THEN /\ attempts' = Append(attempts, Attempt(chIdx, "sms", FALSE))
                            /\ sent' = Append(sent, "sms")
                            /\ UNCHANGED <<npc, failed, notifications>>
                       ELSE UNCHANGED <<npc, sent, failed, attempts, notifications>>
    /\ chIdx' = chIdx + 1
    /\ UNCHANGED <<sends, call, result, audioVars, stored_analyses,
                   historical_analyses, daily_summary, active_alerts, recent_analyses,
                   geminiVars,
                   concurrentVars, restVars>>

\* the loop is over: return { sent, failed, in_quiet_hours: false } (lines 124-125)
FinishSend ==
    /\ npc = "loop"
    /\ chIdx > Len(call.preferences.channels)
    /\ result' = [sent |-> sent, failed |-> failed, in_quiet_hours |-> FALSE]
    /\ npc' = "returned"
    /\ UNCHANGED <<sends, call, chIdx, sent, failed, attempts, audioVars, storeVars,
                   geminiVars,
                   concurrentVars, restVars>>

\* the caller has the result; the system is ready for the next call
NotificationReturned ==
    /\ npc = "returned"
    /\ npc' = "idle"
    /\ call' = NoCall
    /\ result' = NoResult
    /\ chIdx' = 1
    /\ sent' = <<>>
    /\ failed' = <<>>
    /\ attempts' = <<>>
    /\ UNCHANGED <<sends, audioVars, storeVars, geminiVars,
                   concurrentVars, restVars>>

-----------------------------------------------------------------------------
(* GeminiChatAssistant: inputs *)

\* A query: its text and the phrases its lower-case form contains.
Queries ==
    { [text |-> "How is my water quality?", contains |-> {"water quality"}],
      [text |-> "What do the frog calls mean?", contains |-> {"frog", "call"}],
      [text |-> "How to improve my water quality", contains |-> {"water quality", "improve", "how to"}],
      [text |-> "Who are you?", contains |-> {}] }

\* One stored assessment as the prompt and the fallback read it: status, call
\* density (calls/min), number of species detected, length of the first name.
Assessment(status, callDensity, speciesCount, firstSpeciesLen) ==
    [status |-> status, call_density |-> callDensity,
     species_count |-> speciesCount, first_species_len |-> firstSpeciesLen]

\* ChatContext: recent_analyses (newest first) and active_alerts
Contexts ==
    { [recent_analyses |-> ra, active_alerts |-> al] :
        ra \in { <<>>,
                 << Assessment("good", 62, 3, 17) >>,
                 << Assessment("warning", 38, 1, 18) >>,
                 << Assessment("alert", 8, 0, 0), Assessment("good", 62, 3, 17) >> },
        al \in { <<>> } }

\* What the language service does on one fetch.
\*   ok:      HTTP 200; body says what response.json() and the text lookup give
\*   http:    a non-OK status with an error text (the phrases it contains)
\*   network: fetch throws a TypeError whose message does or does not hold "fetch"
ModelTexts ==
    { [len |-> 120, trimmedLen |-> 120, friendly |-> TRUE],   \* "Hello! Your water ..."
      [len |-> 90, trimmedLen |-> 90, friendly |-> FALSE],    \* "The readings show ..."
      [len |-> 3, trimmedLen |-> 0, friendly |-> FALSE] }     \* blanks only
OkBodies ==
    { [json |-> FALSE, hasText |-> FALSE, text |-> [len |-> 0, trimmedLen |-> 0, friendly |-> FALSE]],
      [json |-> TRUE, hasText |-> FALSE, text |-> [len |-> 0, trimmedLen |-> 0, friendly |-> FALSE]],
      [json |-> TRUE, hasText |-> TRUE, text |-> [len |-> 0, trimmedLen |-> 0, friendly |-> FALSE]] }
    \cup { [json |-> TRUE, hasText |-> TRUE, text |-> t] : t \in ModelTexts }
NoBody == [json |-> FALSE, hasText |-> FALSE, text |-> [len |-> 0, trimmedLen |-> 0, friendly |-> FALSE]]
ServiceOutcomes ==
    { [kind |-> "ok", status |-> 200, contains |-> {}, body |-> b] : b \in OkBodies }
    \cup { [kind |-> "http", status |-> st, contains |-> {}, body |-> NoBody] :
             st \in {400, 401, 429, 500, 503} }
    \cup { [kind |-> "http", status |-> 400, contains |-> {"overloaded"}, body |-> NoBody] }
    \cup { [kind |-> "network", status |-> 0, contains |-> c, body |-> NoBody] :
             c \in { {}, {"fetch"} } }

\* The outcomes tried for a call: all of them for one query and context, the
\* main ones (an answer, an empty answer, an unreadable body, 503, 400) for the
\* other queries and contexts.
ServiceOutcomesFor(c) ==
    IF c.query.contains = {} /\ Len(c.context.recent_analyses) = 2
    THEN ServiceOutcomes
    ELSE { o \in ServiceOutcomes :
             \/ o.kind = "ok" /\ o.body.text.len \in {0, 90}
             \/ o.kind = "http" /\ o.status \in {400, 503} /\ o.contains = {} }

NoQuery ==
    [query |-> [text |-> "", contains |-> {}],
     context |-> [recent_analyses |-> <<>>, active_alerts |-> <<>>]]
NoResponse ==
    [response |-> [source |-> "", template |-> "", len |-> 0, note |-> FALSE],
     follow_up_questions |-> <<>>]
NoMetadata == [api_mode |-> "", api_available |-> FALSE]

-----------------------------------------------------------------------------
(* GeminiChatAssistant: helpers *)

\* Math.pow(b, n)
Pow(b, n) == IF n = 0 THEN 1 ELSE IF n = 1 THEN b ELSE IF n = 2 THEN b * b ELSE b * b * b

\* Variant: the same delay for every attempt (no exponential growth).
calculateRetryDelayFlat(forAttempt) ==
    LET delay == baseDelay
    IN  { IF delay + jitter < maxDelay THEN delay + jitter ELSE maxDelay :
            jitter \in { 0, ((3 * delay) \div 10) - 1 } }

\* calculateRetryDelay (lines 70-74), in ms: the delays Math.random() can give,
\* taken at no jitter and at the largest jitter
calculateRetryDelay(forAttempt) ==
    LET delay == baseDelay * Pow(backoffMultiplier, forAttempt)
    IN  { IF delay + jitter < maxDelay THEN delay + jitter ELSE maxDelay :
            jitter \in { 0, ((3 * delay) \div 10) - 1 } }

\* isRetryableError (lines 79-88)
isRetryableError(status, errorText) ==
    \/ (status >= 500 /\ status < 600)
    \/ status = 429
    \/ status = 503
    \/ "overloaded" \in errorText
    \/ "rate limit" \in errorText
    \/ "temporarily unavailable" \in errorText

\* Variant: one retry more than retryConfig.maxRetries.
RetriesRemainOneMore(forAttempt) == forAttempt <= maxRetries

\* attempt < this.retryConfig.maxRetries (lines 117 and 134)
RetriesRemain(forAttempt) == forAttempt < maxRetries

\* the message of the Error thrown at line 127, as the phrases it contains
HttpErrorMessage(status, errorText) == { ToString(status) } \cup errorText

\* errorContext in the catch of processFarmerQuery (lines 252-257)
ErrorContext(message) ==
    IF "503" \in message \/ "overloaded" \in message THEN "high_demand"
    ELSE IF "429" \in message \/ "rate limit" \in message THEN "rate_limit"
    ELSE ""

\* length of the errorContext text
ErrorContextLen(errorContext) ==
    CASE errorContext = "high_demand" -> 52
      [] errorContext = "rate_limit" -> 25
      [] OTHER -> 0

\* String(n).length for a call density
Digits(n) == IF n < 10 THEN 1 ELSE IF n < 100 THEN 2 ELSE 3

Response(source, template, len, note) ==
    [source |-> source, template |-> template, len |-> len, note |-> note]

\* getFallbackResponse (lines 348-416): which text, and its length
getFallbackResponse(query, context, errorContext) ==
    LET has == Len(context.recent_analyses) > 0
        latest == context.recent_analyses[1]
        q == query.contains
    IN  IF "water quality" \in q \/ "paddy" \in q \/ "rice field" \in q
        THEN IF has
             THEN IF latest.status = "good"
                  THEN Response("fallback", "water_good",
                                238 + Digits(latest.call_density), FALSE)
                  ELSE IF latest.status = "warning"
                  THEN Response("fallback", "water_warning",
                                301 + Digits(latest.call_density), FALSE)
                  ELSE Response("fallback", "water_alert",
                                348 + Digits(latest.call_density), FALSE)
             ELSE Response("fallback", "water_no_data", 224, FALSE)
        ELSE IF "frog" \in q \/ "call" \in q \/ "sound" \in q
        THEN IF has
             THEN IF latest.species_count > 0
                  THEN Response("fallback", "frog_species",
                                360 + Digits(latest.species_count)
                                    + latest.first_species_len, FALSE)
                  ELSE Response("fallback", "frog_none", 355, FALSE)
             ELSE Response("fallback", "frog_no_data", 234, FALSE)
        ELSE IF "improve" \in q \/ "fix" \in q \/ "what should" \in q \/ "how to" \in q
        THEN IF has /\ latest.status = "good"
             THEN Response("fallback", "improve_good", 316, FALSE)
             ELSE IF has /\ latest.status \in {"warning", "alert"}
             THEN Response("fallback", "improve_plan", 448, FALSE)
             ELSE Response("fallback", "improve_general", 316, FALSE)
        ELSE Response("fallback", "default",
                      655 + ErrorContextLen(errorContext)
                        + (IF errorContext # ""
                           THEN 163 + ErrorContextLen(errorContext) ELSE 0),
                      errorContext # "")

\* formatGeminiResponse (lines 327-343): trimmed, and given a lead-in unless it
\* reads as a greeting already
formatGeminiResponse(text) ==
    IF text.friendly
    THEN Response("model", "", text.trimmedLen, FALSE)
    ELSE Response("model", "", 33 + text.trimmedLen, FALSE)

\* Variant: generateFollowUpQuestions without the final slice(0, 4).
generateFollowUpQuestionsAll(context) ==
    LET base == << "improve", "best_time", "species_meaning", "worried" >>
        has == Len(context.recent_analyses) > 0
        latest == context.recent_analyses[1]
        byStatus ==
            IF has /\ latest.status = "alert"
            THEN << "immediate_steps" >> \o base \o << "test_ph" >>
            ELSE IF has /\ latest.status = "good"
            THEN base \o << "maintain", "optimize" >>
            ELSE base
    IN  IF has /\ latest.species_count > 2 THEN Append(byStatus, "many_species")
        ELSE IF has /\ latest.species_count = 0 THEN Append(byStatus, "no_frogs")
        ELSE byStatus

\* generateFollowUpQuestions (lines 421-448)
generateFollowUpQuestions(context) ==
    LET base == << "improve", "best_time", "species_meaning", "worried" >>
        has == Len(context.recent_analyses) > 0
        latest == context.recent_analyses[1]
        byStatus ==
            IF has /\ latest.status = "alert"
            THEN << "immediate_steps" >> \o base \o << "test_ph" >>
            ELSE IF has /\ latest.status = "good"
            THEN base \o << "maintain", "optimize" >>
            ELSE base
        questions ==
            IF has /\ latest.species_count > 2 THEN Append(byStatus, "many_species")
            ELSE IF has /\ latest.species_count = 0 THEN Append(byStatus, "no_frogs")
            ELSE byStatus
    IN  Take(questions, 4)

\* the fallback result of processFarmerQuery (lines 185-188, 235-238, 259-262)
FallbackResult(c, errorContext) ==
    [response |-> getFallbackResponse(c.query, c.context, errorContext),
     follow_up_questions |-> generateFollowUpQuestions(c.context)]

-----------------------------------------------------------------------------
(* GeminiChatAssistant.processFarmerQuery *)

\* processFarmerQuery up to the first request (lines 178-228)
ProcessFarmerQuery ==
    /\ gpc = "idle"
    /\ queries < MaxQueries
    /\ \E q \in Queries, cx \in Contexts :
         LET c == [query |-> q, context |-> cx]
         IN  /\ gcall' = c
             /\ IF ~apiKey
                THEN /\ gresult' = FallbackResult(c, "")
                     /\ gpc' = "returned"
                ELSE /\ gresult' = NoResponse
                     /\ gpc' = "request"
    /\ queries' = queries + 1
    /\ attempt' = 0
    /\ requests' = 0
    /\ sleeps' = <<>>
    /\ outcomes' = <<>>
    /\ UNCHANGED <<apiKey, metadata, audioVars, storeVars, notifyVars,
                   concurrentVars, restVars>>

\* One fetch of makeGeminiRequest and what follows it without a pause (lines
\* 94-144).  A response that is OK goes back to processFarmerQuery, which
\* parses it and returns (lines 230-246); an error that is not retried is
\* thrown to the catch of processFarmerQuery (lines 248-262).
GeminiRequest ==
    /\ gpc = "request"
    /\ \E o \in ServiceOutcomesFor(gcall) :
         /\ outcomes' = Append(outcomes, o)
         /\ CASE o.kind = "ok" ->
                   /\ gresult' =
                        IF ~o.body.json
                        THEN FallbackResult(gcall, ErrorContext({}))
                        ELSE IF ~o.body.hasText \/ o.body.text.len = 0
                        THEN FallbackResult(gcall, "")
                        ELSE [response |-> formatGeminiResponse(o.body.text),
                              follow_up_questions |->
                                  generateFollowUpQuestions(gcall.context)]
                   /\ gpc' = "returned"
                   /\ UNCHANGED sleeps
              [] o.kind = "http" ->
                   IF RetriesRemain(attempt) /\ isRetryableError(o.status, o.contains)
                   THEN /\ \E delay \in calculateRetryDelay(attempt) :
                             sleeps' = Append(sleeps, [attempt |-> attempt, ms |-> delay,
                                                       after |-> requests + 1])
                        /\ gpc' = "sleeping"
                        /\ UNCHANGED gresult
                   ELSE /\ gresult' =
                             FallbackResult(gcall,
                                 ErrorContext(HttpErrorMessage(o.status, o.contains)))
                        /\ gpc' = "returned"
                        /\ UNCHANGED sleeps
              [] o.kind = "network" ->
                   IF "fetch" \in o.contains /\ RetriesRemain(attempt)
                   THEN /\ \E delay \in calculateRetryDelay(attempt) :
                             sleeps' = Append(sleeps, [attempt |-> attempt, ms |-> delay,
                                                       after |-> requests + 1])
                        /\ gpc' = "sleeping"
                        /\ UNCHANGED gresult
                   ELSE /\ gresult' = FallbackResult(gcall, ErrorContext(o.contains))
                        /\ gpc' = "returned"
                        /\ UNCHANGED sleeps
    /\ requests' = requests + 1
    /\ UNCHANGED <<apiKey, queries, gcall, attempt, metadata, audioVars, storeVars,
                   notifyVars,
                   concurrentVars, restVars>>

\* the sleep is over: makeGeminiRequest(requestBody, attempt + 1) (lines 121-122, 138-139)
BackoffElapsed ==
    /\ gpc = "sleeping"
    /\ attempt' = attempt + 1
    /\ gpc' = "request"
    /\ UNCHANGED <<apiKey, queries, gcall, requests, sleeps, outcomes, gresult,
                   metadata, audioVars, storeVars, notifyVars,
                   concurrentVars, restVars>>

\* apiMode of POST /query (index.tsx 104-106): isApiAvailable() is !!apiKey, and
\* the fallback is recognised by the note at the end of its text
apiMode(available, responseText) ==
    IF available
    THEN (IF responseText.note THEN "fallback_due_to_error" ELSE "gemini")
    ELSE "fallback_no_key"

\* POST /query after processFarmerQuery has returned (index.tsx 100-123)
QueryEndpointResponds ==
    /\ gpc = "returned"
    /\ metadata' = [api_mode |-> apiMode(apiKey, gresult.response),
                    api_available |-> apiKey]
    /\ gpc' = "responded"
    /\ UNCHANGED <<apiKey, queries, gcall, attempt, requests, sleeps, outcomes, gresult,
                   audioVars, storeVars, notifyVars,
                   concurrentVars, restVars>>

\* the caller has the result; the assistant is ready for the next query
QueryReturned ==
    /\ gpc = "responded"
    /\ gpc' = "idle"
    /\ gcall' = NoQuery
    /\ gresult' = NoResponse
    /\ metadata' = NoMetadata
    /\ attempt' = 0
    /\ requests' = 0
    /\ sleeps' = <<>>
    /\ outcomes' = <<>>
    /\ UNCHANGED <<apiKey, queries, audioVars, storeVars, notifyVars,
                   concurrentVars, restVars>>

-----------------------------------------------------------------------------
(* GeminiChatAssistant.testConnection *)

\* What the language service does on one fetch of the connection test: an
\* answer, 400, 503, and a network error with and without "fetch" in its message
TestOutcomes ==
    { o \in ServiceOutcomes :
        \/ o.kind = "ok" /\ o.body.text.len = 90
        \/ o.kind = "http" /\ o.status \in {400, 503} /\ o.contains = {}
        \/ o.kind = "network" }

\* No result yet.  "error" also holds lastError while the loop runs, as the
\* phrases of the message; hasAttempts says whether the result has "attempts".
NoTestResult ==
    [returned |-> FALSE, success |-> FALSE, error |-> {}, hasAttempts |-> FALSE,
     attempts |-> 0]

\* testConnection up to the first makeGeminiRequest (lines 461-482)
TestConnection ==
    /\ gpc = "idle"
    /\ IF ~apiKey
       THEN /\ testResult' = [NoTestResult EXCEPT !.returned = TRUE,
                                                  !.error = {"API key not configured"}]
            /\ gpc' = "test_returned"
       ELSE /\ testResult' = NoTestResult
            /\ gpc' = "test_request"
    /\ tattempt' = 0
    /\ attempt' = 0
    /\ requests' = 0
    /\ outcomes' = <<>>
    /\ UNCHANGED <<apiKey, queries, gcall, sleeps, gresult, metadata, audioVars,
                   storeVars, notifyVars, concurrentVars, gateVars, channelKeys>>

\* the catch of the loop body and the next iteration (lines 482, 490-493), or
\* the return after the loop (lines 496-500)
TestAttemptFailed(message) ==
    IF tattempt < maxRetries
    THEN /\ testResult' = [testResult EXCEPT !.error = message]
         /\ tattempt' = tattempt + 1
         /\ attempt' = tattempt + 1
         /\ gpc' = "test_request"
    ELSE /\ testResult' = [returned |-> TRUE, success |-> FALSE, error |-> message,
                           hasAttempts |-> TRUE, attempts |-> maxRetries + 1]
         /\ gpc' = "test_returned"
         /\ UNCHANGED <<tattempt, attempt>>

\* One fetch of makeGeminiRequest(requestBody, attempt) called by the loop of
\* testConnection, and what follows it without a pause (lines 94-144 and
\* 483-493).  makeGeminiRequest retries by itself, starting from the attempt
\* number the loop passed in.  The backoff delays are those of GeminiRequest
\* and are not recorded here.
TestRequest ==
    /\ gpc = "test_request"
    /\ \E o \in TestOutcomes :
         /\ outcomes' = Append(outcomes, o)
         /\ CASE o.kind = "ok" ->
                   /\ testResult' = [returned |-> TRUE, success |-> TRUE, error |-> {},
                                     hasAttempts |-> TRUE, attempts |-> tattempt + 1]
                   /\ gpc' = "test_returned"
                   /\ UNCHANGED <<tattempt, attempt>>
              [] o.kind = "http" ->
                   IF RetriesRemain(attempt) /\ isRetryableError(o.status, o.contains)
                   THEN /\ gpc' = "test_sleeping"
                        /\ UNCHANGED <<tattempt, attempt, testResult>>
                   ELSE TestAttemptFailed(HttpErrorMessage(o.status, o.contains))
              [] o.kind = "network" ->
                   IF "fetch" \in o.contains /\ RetriesRemain(attempt)
                   THEN /\ gpc' = "test_sleeping"
                        /\ UNCHANGED <<tattempt, attempt, testResult>>
                   ELSE TestAttemptFailed(o.contains)
    /\ requests' = requests + 1
    /\ UNCHANGED <<apiKey, queries, gcall, sleeps, gresult, metadata, audioVars,
                   storeVars, notifyVars, concurrentVars, gateVars, channelKeys>>

\* the sleep is over: makeGeminiRequest(requestBody, attempt + 1) (lines 121-122, 138-139)
TestBackoffElapsed ==
    /\ gpc = "test_sleeping"
    /\ attempt' = attempt + 1
    /\ gpc' = "test_request"
    /\ UNCHANGED <<apiKey, queries, gcall, requests, sleeps, outcomes, gresult,
                   metadata, audioVars, storeVars, notifyVars, concurrentVars,
                   gateVars, tattempt, testResult, channelKeys>>

\* POST /gemini/test has answered (index.tsx 31-54); the assistant is ready again
TestReturned ==
    /\ gpc = "test_returned"
    /\ gpc' = "idle"
    /\ testResult' = NoTestResult
    /\ tattempt' = 0
    /\ attempt' = 0
    /\ requests' = 0
    /\ outcomes' = <<>>
    /\ UNCHANGED <<apiKey, queries, gcall, sleeps, gresult, metadata, audioVars,
                   storeVars, notifyVars, concurrentVars, gateVars, channelKeys>>

-----------------------------------------------------------------------------

(* POST /audio/analyze up to its quality gate *)

\* AudioPreprocessor.TARGET_SAMPLE_RATE
TARGET_SAMPLE_RATE == 44100

\* An uploaded file: the extension of its name, what its first 12 bytes look
\* like, and its size.  Sizes: fewer than 12 bytes, then 5, 12, 20 and 45
\* seconds of estimated duration (44100 * 2 bytes a second, line 105).
Uploads ==
    [ extension : {"wav", "mp3", "ogg"},
      magic : {"RIFF-WAVE", "frame sync", "ID3", "other"},
      byteLength : {8} \cup { 44100 * 2 * s : s \in {5, 12, 20, 45} } ]

NoUpload == [extension |-> "", magic |-> "", byteLength |-> 0]
NoValidation ==
    [stage |-> "idle",
     metadata |-> [format |-> "", sampleRate |-> 0, channels |-> 0, duration |-> 0,
                   quality |-> ""],
     quality_score |-> 0, suitable |-> FALSE, warnings |-> <<>>, status |-> 0]

\* detectAudioFormat (lines 116-140); new Uint8Array(audioBuffer, 0, 12) throws
\* a RangeError on a buffer of fewer than 12 bytes
detectAudioFormat(u) ==
    IF u.extension \in {"wav", "mp3"} THEN u.extension
    ELSE IF u.byteLength < 12 THEN "RangeError"
    ELSE IF u.magic = "RIFF-WAVE" THEN "wav"
    ELSE IF u.magic \in {"frame sync", "ID3"} THEN "mp3"
    ELSE "unknown"

\* analyzeAudioMetadata (lines 97-111).  The duration is kept in whole seconds,
\* rounded down: it is only compared with whole numbers of seconds.
analyzeAudioMetadata(u) ==
    LET format == detectAudioFormat(u)
        estimate == u.byteLength \div (44100 * 2)
    IN  [format |-> format,
         sampleRate |-> IF format = "wav" THEN 44100 ELSE 48000,
         channels |-> IF format = "wav" THEN 1 ELSE 2,
         duration |-> IF estimate > 10 THEN estimate ELSE 10,
         quality |-> "good"]

\* assessAudioQuality (lines 145-189)
assessAudioQuality(audioMetadata) ==
    LET sampleRatePart == IF audioMetadata.sampleRate >= 44100 THEN 0
                          ELSE IF audioMetadata.sampleRate >= 22050 THEN -10
                          ELSE IF audioMetadata.sampleRate >= 16000 THEN -25
                          ELSE -40
        durationPart == IF audioMetadata.duration >= 30 THEN 0
                        ELSE IF audioMetadata.duration >= 15 THEN -5
                        ELSE IF audioMetadata.duration >= 5 THEN -15
                        ELSE -30
        formatPart == IF audioMetadata.format = "wav" THEN 0
                      ELSE IF audioMetadata.format = "mp3" THEN -5
                      ELSE -20
        channelsPart == IF audioMetadata.channels = 1 THEN 5
                        ELSE IF audioMetadata.channels = 2 THEN 0
                        ELSE -10
        score == 100 + sampleRatePart + durationPart + formatPart + channelsPart
    IN  IF score > 100 THEN 100 ELSE IF score < 0 THEN 0 ELSE score

\* getQualityCategory (lines 194-199)
getQualityCategory(score) ==
    IF score >= 90 THEN "excellent"
    ELSE IF score >= 75 THEN "good"
    ELSE IF score >= 60 THEN "fair"
    ELSE "poor"

\* the metadata preprocessAudio returns (lines 76-86): the sample rate is the
\* target rate, the quality is the category of the score
preprocessAudio(u) ==
    LET audioMetadata == analyzeAudioMetadata(u)
        qualityScore == assessAudioQuality(audioMetadata)
    IN  [metadata |-> [audioMetadata EXCEPT !.sampleRate = TARGET_SAMPLE_RATE,
                                       !.quality = getQualityCategory(qualityScore)],
         quality_score |-> qualityScore]

\* validateForFrogAnalysis (lines 294-329): the warnings in the order they are
\* pushed, and "suitable"
validateForFrogAnalysis(audioMetadata) ==
    LET warnings ==
            (IF audioMetadata.duration < 30 THEN <<"duration">> ELSE <<>>)
            \o (IF audioMetadata.sampleRate < 22050 THEN <<"sample rate">> ELSE <<>>)
            \o (IF audioMetadata.format = "unknown" THEN <<"format">> ELSE <<>>)
            \o (IF audioMetadata.quality = "poor" THEN <<"quality">> ELSE <<>>)
    IN  [suitable |-> \/ Len(warnings) = 0
                      \/ (Len(warnings) <= 2 /\ audioMetadata.quality # "poor"),
         warnings |-> warnings]

\* the request arrives with its file (index.tsx 160-173)
ReceiveUpload ==
    /\ validation.stage = "idle"
    /\ \E u \in Uploads : upload' = u
    /\ validation' = [NoValidation EXCEPT !.stage = "received"]
    /\ UNCHANGED <<audioVars, storeVars, notifyVars, geminiVars, concurrentVars,
                   testVars, channelKeys>>

\* await audioPreprocessor.preprocessAudio (index.tsx 177): the metadata, or
\* the error of line 90, which the endpoint's catch answers with 500
\* (index.tsx 262-270)
PreprocessUpload ==
    /\ validation.stage = "received"
    /\ IF detectAudioFormat(upload) = "RangeError"
       THEN validation' = [validation EXCEPT !.stage = "answered", !.status = 500]
       ELSE LET r == preprocessAudio(upload)
            IN  validation' = [validation EXCEPT !.stage = "preprocessed",
                                                 !.metadata = r.metadata,
                                                 !.quality_score = r.quality_score]
    /\ UNCHANGED <<upload, audioVars, storeVars, notifyVars, geminiVars,
                   concurrentVars, testVars, channelKeys>>

\* the quality gate (index.tsx 181-193): 400 with the warnings, or on to the
\* denoising and the analysis
ValidateUpload ==
    /\ validation.stage = "preprocessed"
    /\ LET v == validateForFrogAnalysis(validation.metadata)
       IN  validation' = [validation EXCEPT
                              !.suitable = v.suitable,
                              !.warnings = v.warnings,
                              !.stage = IF v.suitable THEN "denoising" ELSE "answered",
                              !.status = IF v.suitable THEN 0 ELSE 400]
    /\ UNCHANGED <<upload, audioVars, storeVars, notifyVars, geminiVars,
                   concurrentVars, testVars, channelKeys>>

\* the request leaves the gate: answered, or handed on to the denoising
UploadHandled ==
    /\ validation.stage \in {"answered", "denoising"}
    /\ upload' = NoUpload
    /\ validation' = NoValidation
    /\ UNCHANGED <<audioVars, storeVars, notifyVars, geminiVars, concurrentVars,
                   testVars, channelKeys>>

-----------------------------------------------------------------------------

(* Two analysis requests against the same store *)

\* The requests, named by the analysis id each one generated.
Requests == {1, 2}

\* the alert each of the two assessments triggers (biodiversity below 0.3)
AlertOf(r) == [type |-> "biodiversity", severity |-> "medium", analysis_id |-> r]

NothingRead ==
    [historical_analyses |-> <<>>, daily_summary |-> [analyses |-> <<>>, total_count |-> 0],
     active_alerts |-> <<>>, recent_analyses |-> <<>>]

\* await kv.set(`analysis:${analysis.analysis_id}`, analysis) (line 243)
SetAnalysisRecord(r) ==
    /\ cpc[r] = "set_analysis"
    /\ stored_analyses' = stored_analyses \cup {r}
    /\ cpc' = [cpc EXCEPT ![r] = "get_history"]
    /\ UNCHANGED <<clocal, historical_analyses, daily_summary, active_alerts,
                   recent_analyses, notifications, audioVars, notifyVars, geminiVars, restVars>>

\* const recent = await kv.get('historical_analyses') || [] (line 247)
GetHistory(r) ==
    /\ cpc[r] = "get_history"
    /\ clocal' = [clocal EXCEPT ![r].historical_analyses = historical_analyses]
    /\ cpc' = [cpc EXCEPT ![r] = "set_history"]
    /\ UNCHANGED <<storeVars, audioVars, notifyVars, geminiVars, restVars>>

\* recent.unshift(id); splice(50); await kv.set('historical_analyses', recent)
\* (lines 248-250)
SetHistory(r) ==
    /\ cpc[r] = "set_history"
    /\ historical_analyses' = Take(<<r>> \o clocal[r].historical_analyses, HistoryCap)
    /\ cpc' = [cpc EXCEPT ![r] = "get_daily"]
    /\ UNCHANGED <<clocal, stored_analyses, daily_summary, active_alerts,
                   recent_analyses, notifications, audioVars, notifyVars, geminiVars, restVars>>

\* const dailySummary = await kv.get(dailyKey) || {...} (line 255)
GetDaily(r) ==
    /\ cpc[r] = "get_daily"
    /\ clocal' = [clocal EXCEPT ![r].daily_summary = daily_summary]
    /\ cpc' = [cpc EXCEPT ![r] = "set_daily"]
    /\ UNCHANGED <<storeVars, audioVars, notifyVars, geminiVars, restVars>>

\* Variant: the counter and the list updated in the store in one step.
SetDailyAtomic(r) ==
    /\ cpc[r] = "set_daily"
    /\ daily_summary' = [analyses |-> Append(daily_summary.analyses, r),
                         total_count |-> daily_summary.total_count + 1]
    /\ cpc' = [cpc EXCEPT ![r] = "get_alerts"]
    /\ UNCHANGED <<clocal, stored_analyses, historical_analyses, active_alerts,
                   recent_analyses, notifications, audioVars, notifyVars, geminiVars, restVars>>

\* dailySummary.analyses.push(id); dailySummary.total_count++;
\* await kv.set(dailyKey, dailySummary) (lines 256-258)
SetDaily(r) ==
    /\ cpc[r] = "set_daily"
    /\ daily_summary' = [analyses |-> Append(clocal[r].daily_summary.analyses, r),
                         total_count |-> clocal[r].daily_summary.total_count + 1]
    /\ cpc' = [cpc EXCEPT ![r] = "get_alerts"]
    /\ UNCHANGED <<clocal, stored_analyses, historical_analyses, active_alerts,
                   recent_analyses, notifications, audioVars, notifyVars, geminiVars, restVars>>

\* const existingAlerts = await kv.get('active_alerts') || [] (line 305)
GetAlerts(r) ==
    /\ cpc[r] = "get_alerts"
    /\ clocal' = [clocal EXCEPT ![r].active_alerts = active_alerts]
    /\ cpc' = [cpc EXCEPT ![r] = "set_alerts"]
    /\ UNCHANGED <<storeVars, audioVars, notifyVars, geminiVars, restVars>>

\* await kv.set('active_alerts', [...alerts, ...existingAlerts].slice(0, 20))
\* (lines 306-307)
SetAlerts(r) ==
    /\ cpc[r] = "set_alerts"
    /\ active_alerts' = UpdatedAlerts(<<AlertOf(r)>>, clocal[r].active_alerts)
    /\ cpc' = [cpc EXCEPT ![r] = "get_recent"]
    /\ UNCHANGED <<clocal, stored_analyses, historical_analyses, daily_summary,
                   recent_analyses, notifications, audioVars, notifyVars, geminiVars, restVars>>

\* const recentAnalyses = await kv.get("recent_analyses") || [] (index.tsx 231)
GetRecent(r) ==
    /\ cpc[r] = "get_recent"
    /\ clocal' = [clocal EXCEPT ![r].recent_analyses = recent_analyses]
    /\ cpc' = [cpc EXCEPT ![r] = "set_recent"]
    /\ UNCHANGED <<storeVars, audioVars, notifyVars, geminiVars, restVars>>

\* await kv.set("recent_analyses", recentAnalyses) and the answer
\* (index.tsx 241-260)
SetRecent(r) ==
    /\ cpc[r] = "set_recent"
    /\ recent_analyses' = UpdatedRecentAnalyses(r, clocal[r].recent_analyses)
    /\ cpc' = [cpc EXCEPT ![r] = "answered"]
    /\ UNCHANGED <<clocal, stored_analyses, historical_analyses, daily_summary,
                   active_alerts, notifications, audioVars, notifyVars, geminiVars, restVars>>

-----------------------------------------------------------------------------
(* Specifications *)

Init ==
    /\ pc = "idle"
    /\ runs = 0
    /\ filename = NoFilename
    /\ natureLMOutcome = NotCalledFrog
    /\ avesOutcome = NotCalledEnv
    /\ frogSlot = PendingFrog
    /\ envSlot = PendingEnv
    /\ fusion = NoFusion
    /\ analysis = NoAnalysis
    /\ alerts = <<>>
    /\ errorLog = {}
    /\ recording = NoRecording
    /\ response = NoAnalyzeResponse
    /\ \E store \in Deployments :
         /\ apiKey = store.apiKey
         /\ channelKeys = store.channelKeys
         /\ stored_analyses = store.stored_analyses
         /\ historical_analyses = store.historical_analyses
         /\ recent_analyses = store.recent_analyses
         /\ active_alerts = store.active_alerts
         /\ notifications = store.notifications
    /\ daily_summary = [analyses |-> <<>>, total_count |-> 0]
    /\ npc = "idle"
    /\ sends = 0
    /\ call = NoCall
    /\ chIdx = 1
    /\ sent = <<>>
    /\ failed = <<>>
    /\ attempts = <<>>
    /\ result = NoResult
    /\ gpc = "idle"
    /\ queries = 0
    /\ gcall = NoQuery
    /\ attempt = 0
    /\ requests = 0
    /\ sleeps = <<>>
    /\ outcomes = <<>>
    /\ gresult = NoResponse
    /\ metadata = NoMetadata
    /\ cpc = [r \in Requests |-> "set_analysis"]
    /\ clocal = [r \in Requests |-> NothingRead]
    /\ upload = NoUpload
    /\ validation = NoValidation
    /\ tattempt = 0
    /\ testResult = NoTestResult

\* analysis requests, one after the other
Next ==
    \/ StartProcessAudio
    \/ NatureLMSettles
    \/ AVESSettles
    \/ JoinAndAssess
    \/ StoreAnalysis
    \/ CheckAndCreateAlerts
    \/ ReturnAnalysis
    \/ AnalyzeEndpointResponds
    \/ RequestFinished

Spec == Init /\ [][Next]_vars

\* a recording submitted and submitted again
NextResubmit ==
    \/ SubmitRecording
    \/ NatureLMSettles
    \/ AVESSettles
    \/ JoinAndAssess
    \/ StoreAnalysis
    \/ CheckAndCreateAlerts
    \/ ReturnAnalysis
    \/ AnalyzeEndpointResponds
    \/ RequestFinished

SpecResubmit == Init /\ [][NextResubmit]_vars

\* sendNotification calls, one after the other
NextNotify ==
    \/ SendNotification
    \/ DispatchChannel
    \/ FinishSend
    \/ NotificationReturned

SpecNotify == Init /\ [][NextNotify]_vars

\* processFarmerQuery calls, one after the other
NextGemini ==
    \/ ProcessFarmerQuery
    \/ GeminiRequest
    \/ BackoffElapsed
    \/ QueryEndpointResponds
    \/ QueryReturned

SpecGemini == Init /\ [][NextGemini]_vars

\* two analysis requests at the same time: their store calls in any order
NextConcurrent ==
    \E r \in Requests :
        \/ SetAnalysisRecord(r)
        \/ GetHistory(r)
        \/ SetHistory(r)
        \/ GetDaily(r)
        \/ SetDaily(r)
        \/ GetAlerts(r)
        \/ SetAlerts(r)
        \/ GetRecent(r)
        \/ SetRecent(r)

SpecConcurrent == Init /\ [][NextConcurrent]_vars

\* uploads at the quality gate of POST /audio/analyze, one after the other
NextGate ==
    \/ ReceiveUpload
    \/ PreprocessUpload
    \/ ValidateUpload
    \/ UploadHandled

SpecGate == Init /\ [][NextGate]_vars

\* connection tests, one after the other
NextGeminiTest ==
    \/ TestConnection
    \/ TestRequest
    \/ TestBackoffElapsed
    \/ TestReturned

SpecGeminiTest == Init /\ [][NextGeminiTest]_vars

\* The language service answers every request (or the connection fails), and
\* a timer that was set fires.
SpecGeminiFair ==
    SpecGemini /\ WF_vars(GeminiRequest) /\ WF_vars(BackoffElapsed)

-----------------------------------------------------------------------------
(* Properties of processAudio (specification Spec) *)

\* the request is past the fusion: the record to store exists
PostFusion == pc \in {"store", "alerts", "done"}

\* C1: each analyzer branch is caught on its own.  A branch that throws is
\* replaced by that branch's own fallback result, the other branch's result is
\* used exactly as the analyzer returned it, the request is never aborted, and
\* a complete assessment comes out.
C1_BranchFailureIsolated ==
    /\ pc # "failed"
    /\ frogSlot.state \in {"pending", "fulfilled", "consumed"}
    /\ envSlot.state \in {"pending", "fulfilled", "consumed"}
    /\ frogSlot.state = "fulfilled" =>
         frogSlot.value = IF natureLMOutcome.threw
                          THEN getFallbackFrogAnalysis(filename)
                          ELSE natureLMOutcome.value
    /\ envSlot.state = "fulfilled" =>
         envSlot.value = IF avesOutcome.threw
                         THEN getFallbackEnvironmentalAnalysis(filename)
                         ELSE avesOutcome.value
    /\ PostFusion =>
         /\ analysis.analysis_id = runs
         /\ analysis.status \in {"good", "warning", "alert"}
         /\ analysis.call_density.t = "num"
         /\ analysis.biodiversity_score.t = "num"
         /\ analysis.ecosystem_health \in {"healthy", "stressed", "degraded"}

\* NatureLM threw, AVES returned 0.78/healthy: the record is built from the
\* frog fallback and from the AVES result as returned, and the request returns.
C1_Witness ==
    /\ pc = "done"
    /\ natureLMOutcome.threw
    /\ ~avesOutcome.threw
    /\ analysis.biodiversity_score = Num(78)
    /\ analysis.ecosystem_health = "healthy"
    /\ analysis.call_density = getFallbackFrogAnalysis(filename).call_density
    /\ analysis.status = "good"

\* C2: the stored call density equals the call density the fusion used and is
\* an integer in [0, 80]; the stored biodiversity score is in [0, 1]; for every
\* analyzer output.
C2_StoredValuesInRange ==
    PostFusion =>
      /\ analysis.call_density = fusion.callDensity
      /\ analysis.call_density.t = "num"
      /\ analysis.call_density.v \in 0..8000
      /\ analysis.call_density.v % 100 = 0
      /\ analysis.biodiversity_score.t = "num"
      /\ analysis.biodiversity_score.v \in 0..100

\* NatureLM reported 120 calls/min and AVES a biodiversity score of 1.5: both
\* are stored clamped.
C2_Witness ==
    /\ pc = "store"
    /\ ~natureLMOutcome.threw
    /\ natureLMOutcome.value.call_density = Num(12000)
    /\ ~avesOutcome.threw
    /\ avesOutcome.value.biodiversity_score = Num(150)
    /\ analysis.call_density = Num(8000)
    /\ fusion.callDensity = Num(8000)
    /\ analysis.biodiversity_score = Num(100)

\* C3: the stored status agrees with the stored two-decimal overall_score:
\* good from 0.70, warning in [0.40, 0.70), alert below 0.40.
C3_StatusAgreesWithStoredScore ==
    PostFusion =>
      analysis.status = IF analysis.overall_score >= 70 THEN "good"
                        ELSE IF analysis.overall_score >= 40 THEN "warning"
                        ELSE "alert"

\* C4: the overall score is 0.4 * frog score + 0.3 * biodiversity + 0.3 *
\* environment score, the frog score 1.0 / 0.6 / 0.2 for a clamped call density
\* of at least 50 / at least 30 / less, the environment score 1.0 / 0.5 / 0.2
\* for healthy / stressed / degraded; the score lies in [0, 1].
C4_WeightedOverallScore ==
    PostFusion =>
      LET density == analysis.call_density.v
          frog == IF density >= 5000 THEN 100 ELSE IF density >= 3000 THEN 60 ELSE 20
          env == CASE analysis.ecosystem_health = "healthy" -> 100
                   [] analysis.ecosystem_health = "stressed" -> 50
                   [] analysis.ecosystem_health = "degraded" -> 20
                   [] OTHER -> 0 - 1000
          score == (4 * frog) + (3 * analysis.biodiversity_score.v) + (3 * env)
      IN  /\ analysis.biodiversity_score.t = "num"
          /\ fusion.biodiversityScore = analysis.biodiversity_score
          /\ fusion.overallScore = score
          /\ score \in 0..1000
          /\ (analysis.overall_score * 10) - score \in (0 - 5)..5
          /\ analysis.overall_score \in 0..100

\* 62 calls/min, biodiversity 0.78, healthy: 0.4 + 0.234 + 0.3 = 0.934, stored 0.93
C4_Witness ==
    /\ pc = "store"
    /\ analysis.call_density = Num(6200)
    /\ fusion.biodiversityScore = Num(78)
    /\ analysis.ecosystem_health = "healthy"
    /\ fusion.overallScore = 934
    /\ analysis.overall_score = 93

\* C5: checkAndCreateAlerts creates a water_quality alert exactly when the
\* status is alert and a biodiversity alert exactly when the stored biodiversity
\* score is below 0.3; the two rules are independent, each creates at most one
\* alert, and every alert carries the analysis id.
C5_AlertRules ==
    pc = "done" =>
      LET ofType(t) == { i \in 1..Len(alerts) : alerts[i].type = t }
      IN  /\ Cardinality(ofType("water_quality")) =
                IF analysis.status = "alert" THEN 1 ELSE 0
          /\ Cardinality(ofType("biodiversity")) =
                IF analysis.biodiversity_score.v < 30 THEN 1 ELSE 0
          /\ \A i \in 1..Len(alerts) :
                /\ alerts[i].type \in {"water_quality", "biodiversity"}
                /\ alerts[i].analysis_id = analysis.analysis_id

\* status alert with a biodiversity score of 0.3: the water quality rule fires
\* alone
C5_Witness ==
    /\ pc = "done"
    /\ analysis.status = "alert"
    /\ analysis.biodiversity_score = Num(30)
    /\ Len(alerts) = 1
    /\ alerts[1].type = "water_quality"
    /\ alerts[1].analysis_id = analysis.analysis_id

\* C6: active_alerts never holds more than 20 entries.  The alerts of a run go
\* in front of the existing ones, the existing ones keep their content and
\* order, and only the oldest beyond 20 are dropped.  A run that triggers no
\* rule leaves the list as it was.  (So does a run whose store call throws.)
C6_ActiveAlertsPrepended ==
    /\ Len(active_alerts) <= 20
    /\ [][ /\ Len(active_alerts') <= 20
           /\ pc # "alerts" => active_alerts' = active_alerts
           /\ (pc = "alerts" /\ alerts' = <<>>) => active_alerts' = active_alerts
           /\ (pc = "alerts" /\ alerts' # <<>>) =>
                \/ /\ "Failed to create alerts" \in errorLog'
                   /\ active_alerts' = active_alerts
                \/ /\ "Failed to create alerts" \notin errorLog'
                   /\ Len(active_alerts') =
                        IF Len(alerts') + Len(active_alerts) < 20
                        THEN Len(alerts') + Len(active_alerts) ELSE 20
                   /\ \A i \in 1..Len(active_alerts') :
                        active_alerts'[i] =
                          IF i <= Len(alerts') THEN alerts'[i]
                          ELSE active_alerts[i - Len(alerts')]
         ]_vars

\* 19 alerts in the store and a run that triggers both rules: the two new
\* alerts lead, 18 old ones follow in order, the oldest is gone
C6_Witness ==
    /\ pc = "done"
    /\ Len(alerts) = 2
    /\ Len(active_alerts) = 20
    /\ active_alerts[1] = alerts[1]
    /\ active_alerts[2] = alerts[2]
    /\ active_alerts[3].analysis_id = 0 - 1
    /\ active_alerts[20].analysis_id = 0 - 18

-----------------------------------------------------------------------------
(* Properties of sendNotification (specification SpecNotify) *)

\* C7: in quiet hours (a window that crosses midnight included) a non-critical
\* payload returns in_quiet_hours = true with empty sent and failed and no
\* channel send is made; a critical payload is not suppressed by quiet hours
\* and goes on to the channels.
C7_QuietHoursSuppression ==
    npc # "idle" =>
      LET quiet == call.preferences.quiet_hours
          start == (quiet.start_time.hh * 60) + quiet.start_time.mm
          end == (quiet.end_time.hh * 60) + quiet.end_time.mm
          clock == (call.now.hh * 60) + call.now.mm
          \* going forward from start, the clock comes no later than end
          inWindow == quiet.enabled /\ ((clock - start) % 1440 <= (end - start) % 1440)
          channels == call.preferences.channels
          deliverable == { i \in 1..Len(channels) :
                             /\ channels[i].enabled
                             /\ channels[i].type \in {"email", "sms"} => channels[i].address }
      IN  /\ (inWindow /\ call.payload.severity # "critical") =>
                /\ npc = "returned"
                /\ result = [sent |-> <<>>, failed |-> <<>>, in_quiet_hours |-> TRUE]
                /\ attempts = <<>>
                /\ \A k \in DOMAIN notifications :
                     \A i \in 1..Len(notifications[k]) : notifications[k][i].id # sends
          /\ ~(inWindow /\ call.payload.severity # "critical") =>
                ~result.in_quiet_hours
          /\ (call.payload.severity = "critical"
                /\ isAlertTypeEnabled(call.payload.type, call.preferences)) =>
                /\ npc \in {"loop", "returned"}
                /\ npc = "returned" =>
                     { attempts[i].idx : i \in 1..Len(attempts) } = deliverable

\* 22:00-06:00 at 23:30, severity high, in-app channel enabled: suppressed
C7_Witness ==
    /\ npc = "returned"
    /\ call.preferences.quiet_hours = QuietHours(TRUE, Time(22, 0), Time(6, 0))
    /\ call.now = Time(23, 30)
    /\ call.payload = [type |-> "water_quality", severity |-> "high"]
    /\ call.preferences.alert_types.water_quality_warning
    /\ call.preferences.channels[1] = Channel("in_app", TRUE, FALSE)
    /\ result = [sent |-> <<>>, failed |-> <<>>, in_quiet_hours |-> TRUE]
    /\ attempts = <<>>

\* C8: when the payload's category is disabled in alert_types the call returns
\* empty sent and failed and sends on no channel, for every severity.  The flag
\* of water_quality is water_quality_critical for severity critical and
\* water_quality_warning otherwise; biodiversity -> biodiversity_low, system ->
\* system_updates, summary -> daily_summary.
C8_DisabledCategorySuppressed ==
    npc # "idle" =>
      LET flags == call.preferences.alert_types
          enabled ==
            CASE call.payload.type = "water_quality" ->
                   IF call.payload.severity = "critical"
                   THEN flags.water_quality_critical ELSE flags.water_quality_warning
              [] call.payload.type = "biodiversity" -> flags.biodiversity_low
              [] call.payload.type = "system" -> flags.system_updates
              [] call.payload.type = "summary" -> flags.daily_summary
      IN  ~enabled =>
            /\ npc = "returned"
            /\ result.sent = <<>>
            /\ result.failed = <<>>
            /\ attempts = <<>>

C10_EachTypeAttemptedAtMostOnce ==
    \A t \in ChannelTypes :
      Cardinality({ i \in 1..Len(attempts) : attempts[i].type = t }) <= 1

-----------------------------------------------------------------------------
(* Properties of processFarmerQuery (specifications SpecGemini, SpecGeminiFair) *)

\* C11: with a credential, when the service answers 503, 503 and then 200 with
\* a non-empty text, processFarmerQuery makes exactly 3 requests, sleeps the
\* backoff delay of attempt 0 before the 2nd request and that of attempt 1
\* before the 3rd, and returns the model's text, not the fallback.
C11_TwoOverloadsThenSuccess ==
    (/\ gpc = "returned"
     /\ Len(outcomes) >= 3
     /\ outcomes[1].status = 503
     /\ outcomes[2].status = 503
     /\ outcomes[3].status = 200
     /\ outcomes[3].body.json /\ outcomes[3].body.hasText
     /\ outcomes[3].body.text.len > 0) =>
       /\ apiKey
       /\ requests = 3
       /\ Len(outcomes) = 3
       /\ Len(sleeps) = 2
       /\ sleeps[1].after = 1 /\ sleeps[1].ms >= 1000 /\ sleeps[1].ms < 1300
       /\ sleeps[2].after = 2 /\ sleeps[2].ms >= 2000 /\ sleeps[2].ms < 2600
       /\ gresult.response.source = "model"
       /\ gresult.response.len > 0

\* 503, 503, then a plain answer: three requests, two sleeps, the model's text
C11_Witness ==
    /\ gpc = "returned"
    /\ requests = 3
    /\ Len(outcomes) = 3
    /\ outcomes[1].status = 503
    /\ outcomes[2].status = 503
    /\ outcomes[3].status = 200
    /\ outcomes[3].body.text.len = 90
    /\ Len(sleeps) = 2
    /\ sleeps[1].ms = 1299
    /\ sleeps[2].ms = 2000
    /\ gresult.response.source = "model"

\* C12: processFarmerQuery never passes an error to its caller.  Without a
\* credential (no request is made then), with retries exhausted, on an error
\* that is not retried, on a body that cannot be parsed and on an empty model
\* output it returns the rule-based fallback; every response is non-empty and
\* comes with 1 to 4 follow-up questions.
C12_AlwaysAnAnswer ==
    /\ gpc \in {"idle", "request", "sleeping", "returned", "responded"}
    /\ ~apiKey => requests = 0 /\ gpc \in {"idle", "returned", "responded"}
    /\ gpc = "returned" =>
         LET last == outcomes[Len(outcomes)]
             modelAnswered ==
                 /\ apiKey
                 /\ Len(outcomes) > 0
                 /\ last.kind = "ok" /\ last.body.json /\ last.body.hasText
                 /\ last.body.text.len > 0
         IN  /\ gresult.response.source = IF modelAnswered THEN "model" ELSE "fallback"
             /\ gresult.response.len > 0
             /\ Len(gresult.follow_up_questions) \in 1..4

\* the fourth 503 in a row: the fallback answers, with its note on high demand
C12_Witness ==
    /\ gpc = "returned"
    /\ requests = 4
    /\ \A i \in 1..4 : outcomes[i].status = 503
    /\ gcall.query.contains = {}
    /\ Len(gcall.context.recent_analyses) = 2
    /\ gresult.response.source = "fallback"
    /\ gresult.response.template = "default"
    /\ gresult.response.note
    /\ gresult.follow_up_questions =
         << "immediate_steps", "improve", "best_time", "species_meaning" >>

\* C13: whatever the service does, one processFarmerQuery call makes at most 4
\* requests (1 + at most 3 retries) and at most 3 backoff sleeps, and it
\* eventually returns.
C13_BoundedRetriesAndReturn ==
    /\ [](requests <= 4 /\ Len(sleeps) <= 3 /\ Len(outcomes) = requests)
    /\ [](gpc \in {"request", "sleeping"} => <>(gpc = "returned"))

\* four network failures in a row: 4 requests, 3 sleeps, then the result
C13_Witness ==
    /\ gpc = "returned"
    /\ requests = 4
    /\ Len(sleeps) = 3
    /\ \A i \in 1..4 : outcomes[i].kind = "network"
    /\ sleeps[3].ms = 5199

-----------------------------------------------------------------------------
(* C14 *)

\* C14: processAudio never fails because of what an analyzer did (threw, gave
\* a non-object, left fields out, gave out-of-range numbers or unknown labels):
\* an assessment always comes out, and its label fields hold only their allowed
\* values: status and water_quality_indicator one of good/warning/alert,
\* ecosystem_health one of healthy/stressed/degraded, habitat_quality one of
\* excellent/good/fair/poor.
C14_OnlyAllowedLabels ==
    /\ pc # "failed"
    /\ pc \in {"store", "alerts", "done", "returned", "responded"} =>
         /\ analysis.status \in {"good", "warning", "alert"}
         /\ analysis.water_quality_indicator \in {"good", "warning", "alert"}
         /\ analysis.ecosystem_health \in {"healthy", "stressed", "degraded"}
         /\ analysis.habitat_quality \in {"excellent", "good", "fair", "poor"}

\* NatureLM reported a record without a usable density and with an unknown
\* water label, AVES an unknown ecosystem label; the assessment has the
\* defaults in their place.
C14_Witness ==
    /\ pc = "store"
    /\ ~natureLMOutcome.threw
    /\ natureLMOutcome.value = FrogRecord(Str, Undef, "undefined")
    /\ ~avesOutcome.threw
    /\ avesOutcome.value.obj
    /\ avesOutcome.value.ecosystem_health = "unknown"
    /\ analysis.ecosystem_health = "stressed"
    /\ analysis.habitat_quality = "good"
    /\ analysis.water_quality_indicator = "alert"

-----------------------------------------------------------------------------
(* C15 *)

\* C15: every analysis request puts exactly one assessment at the front of the
\* persisted history and only the oldest entries beyond 50 are dropped, so
\* that after n requests the history holds the most recent min(n, 50)
\* assessments, newest first.  Stated for both lists the request keeps: the
\* one storeAnalysis writes and the one the endpoint writes and the history
\* endpoints read.  No other step changes either list.
C15_HistoryKeepsLastFifty ==
    [][ /\ pc = "store" =>
             historical_analyses' =
                 Take(<<analysis.analysis_id>> \o historical_analyses, 50)
        /\ pc = "returned" =>
             recent_analyses' = Take(<<analysis.analysis_id>> \o recent_analyses, 50)
        /\ pc # "store" => UNCHANGED historical_analyses
        /\ pc # "returned" => UNCHANGED recent_analyses ]_vars

-----------------------------------------------------------------------------
(* C16 *)

\* C16: the in-app log is kept per user (one global log for deliveries without
\* a userId).  Every log holds at most 50 entries, newest first, and a step
\* changes at most the log of the user the delivery is for: the new entry goes
\* to its front and what falls beyond 50 is dropped, while every other log
\* stays as it was.
C16_PerUserLogBounded ==
    /\ [](\A k \in DOMAIN notifications :
            /\ Len(notifications[k]) <= 50
            /\ \A i \in 1..(Len(notifications[k]) - 1) :
                 notifications[k][i].id >= notifications[k][i + 1].id)
    /\ [][ \A k \in DOMAIN notifications :
             notifications'[k] # notifications[k] =>
                /\ k = (IF call.userId = "none" THEN "global" ELSE call.userId)
                /\ notifications'[k] =
                      Take(<< [id |-> sends, user_id |-> call.userId, read |-> FALSE] >>
                              \o notifications[k], 50) ]_vars

\* A delivery for farmer1, whose log was full: the new entry is first, the
\* oldest one is gone, and the global log is as it was.
C16_Witness ==
    /\ npc = "returned"
    /\ call.userId = "farmer1"
    /\ Len(notifications["farmer1"]) = 50
    /\ notifications["farmer1"][1].id = sends
    /\ notifications["farmer1"][50].id = 0 - 49
    /\ notifications["global"] = PriorNotifications(2, "none")

-----------------------------------------------------------------------------
(* C17 *)

-----------------------------------------------------------------------------
(* C18 *)

\* C18: a recording whose biodiversity_score is 0.25 gets exactly one
\* low-biodiversity alert whatever its call density, and submitting the same
\* recording again does not add a second one: of the alerts created since the
\* server started, at most one in active_alerts is a low-biodiversity alert.
C18_NoSecondAlertOnResubmission ==
    /\ pc = "done" =>
         Cardinality({ i \in 1..Len(alerts) : alerts[i].type = "biodiversity" }) = 1
    /\ Cardinality({ i \in 1..Len(active_alerts) :
                       /\ active_alerts[i].type = "biodiversity"
                       /\ active_alerts[i].analysis_id >= 1 }) <= 1

-----------------------------------------------------------------------------
(* C19 *)

\* C19 as stated: once an alert is in active_alerts it stays there; no step of
\* a later run removes it.  (Nothing in the program actions an alert.)
C19_AlertsNeverRemoved ==
    [][ \A i \in 1..Len(active_alerts) :
           \E j \in 1..Len(active_alerts') : active_alerts'[j] = active_alerts[i] ]_vars

\* C19: an alert in active_alerts is never expired or removed by a run.  When
\* a run adds alerts, every stored alert moves back by the number added and
\* stays in the list, except those this moves beyond position 20: only they
\* are dropped, and only when the list is full afterwards.
C19_AlertsLeaveOnlyByTheCap ==
    [][ LET added == IF active_alerts' = active_alerts THEN 0 ELSE Len(alerts')
        IN  \A i \in 1..Len(active_alerts) :
                IF i + added <= 20
                THEN /\ i + added <= Len(active_alerts')
                     /\ active_alerts'[i + added] = active_alerts[i]
                ELSE /\ added > 0
                     /\ Len(active_alerts') = 20 ]_vars

\* The alert of the first run is still there after the second run has added
\* its own to the full list; the oldest stored alert made room.
C19_Witness ==
    /\ pc = "done"
    /\ runs = 2
    /\ Len(alerts) = 1
    /\ Len(active_alerts) = 20
    /\ active_alerts[1].analysis_id = 2
    /\ active_alerts[2].analysis_id = 1
    /\ active_alerts[20].analysis_id = 0 - 18

-----------------------------------------------------------------------------
(* C20 *)

\* C20: whenever AVES reports a numeric biodiversity score, the biodiversity
\* sub-score fusion uses and the stored biodiversity_score both equal the
\* reported score clamped to [0, 1]; a reported score of exactly 0 is used as
\* 0 and not replaced by the default.
C20_ReportedBiodiversityUsed ==
    (/\ pc = "store"
     /\ ~avesOutcome.threw
     /\ avesOutcome.value.obj
     /\ avesOutcome.value.biodiversity_score.t = "num") =>
        LET reported == Clamp(0, 100, avesOutcome.value.biodiversity_score)
        IN  /\ fusion.biodiversityScore = reported
            /\ analysis.biodiversity_score = reported

-----------------------------------------------------------------------------
(* C21 *)

\* C21: in makeGeminiRequest a non-OK response is followed by a backoff sleep
\* and another request if and only if the attempt number is below 3 and the
\* response is retryable (status 500..599 or 429, or a body with 'overloaded',
\* 'rate limit' or 'temporarily unavailable'); a non-retryable first response
\* means one request, no sleep and the fallback answer; and a network exception
\* raised by the request is retried whenever the attempt number is below 3.
C21_RetryIffRetryable ==
    [][ gpc = "request" =>
          LET o == outcomes'[Len(outcomes')]
              retryable ==
                  \/ (o.status >= 500 /\ o.status <= 599)
                  \/ o.status = 429
                  \/ o.contains \cap {"overloaded", "rate limit",
                                      "temporarily unavailable"} # {}
          IN  /\ o.kind = "http" =>
                    /\ (gpc' = "sleeping") <=> (attempt < 3 /\ retryable)
                    /\ (attempt = 0 /\ ~retryable) =>
                          /\ requests' = 1
                          /\ sleeps' = <<>>
                          /\ gpc' = "returned"
                          /\ gresult'.response.source = "fallback"
              /\ o.kind = "network" => ((gpc' = "sleeping") <=> attempt < 3) ]_vars

-----------------------------------------------------------------------------
(* C22 *)

\* C22: in the answer of the query endpoint, metadata.api_mode is 'gemini' if
\* and only if the response text came from the language model; whenever the
\* rule-based fallback produced the text, api_mode names a fallback mode.
C22_ApiModeTellsTheSource ==
    gpc = "responded" =>
       /\ (metadata.api_mode = "gemini") <=> (gresult.response.source = "model")
       /\ gresult.response.source = "fallback" =>
             metadata.api_mode \in {"fallback_no_key", "fallback_due_to_error"}

-----------------------------------------------------------------------------
(* C23 *)

\* C23: the payload of the test-dispatch endpoint (type system, severity low)
\* is attempted on every enabled channel of the user's preferences, at any
\* time of day and for every stored preference value, the default preferences
\* included.
C23_TestPayloadReachesEveryEnabledChannel ==
    (npc = "returned" /\ call \in TestCalls) =>
        \A i \in 1..Len(call.preferences.channels) :
            call.preferences.channels[i].enabled =>
                \E k \in 1..Len(attempts) : attempts[k].idx = i

-----------------------------------------------------------------------------
(* C24 *)

\* C24: a store read or write that fails while an analysis request is handled
\* (in storeAnalysis, in checkAndCreateAlerts, or in the endpoint's own update
\* of recent_analyses) does not keep the assessment from the caller: whenever
\* the endpoint answers, the answer is a success and carries the assessment
\* processAudio computed.
C24_AssessmentReturnedDespiteStoreFailure ==
    pc = "responded" =>
       /\ response.success
       /\ response.analysis = analysis
       /\ analysis # NoAnalysis

-----------------------------------------------------------------------------
(* C25 *)

\* C25: the updates of the history list, the daily counter and the alert list
\* are read-modify-write sequences that are not atomic.  When a request writes
\* a key that the other request has written since this request read it, the
\* other request's entry is overwritten: it is in the store before the write
\* and gone after it, and the daily counter does not grow.  So two interleaved
\* requests can both complete with an entry of one of them lost.
C25_StaleWriteLosesTheOtherUpdate ==
    [][ \A r \in Requests : \A q \in Requests \ {r} :
          LET Has(list, id) == \E i \in 1..Len(list) : list[i] = id
              HasAlert(list, id) == \E i \in 1..Len(list) : list[i].analysis_id = id
          IN  /\ (/\ cpc[r] = "set_history" /\ cpc'[r] = "get_daily"
                  /\ Has(historical_analyses, q)
                  /\ ~Has(clocal[r].historical_analyses, q))
                 => /\ ~Has(historical_analyses', q)
                    /\ Has(historical_analyses', r)
              /\ (/\ cpc[r] = "set_daily" /\ cpc'[r] = "get_alerts"
                  /\ Has(daily_summary.analyses, q)
                  /\ ~Has(clocal[r].daily_summary.analyses, q))
                 => /\ ~Has(daily_summary'.analyses, q)
                    /\ daily_summary'.total_count <= daily_summary.total_count
              /\ (/\ cpc[r] = "set_alerts" /\ cpc'[r] = "get_recent"
                  /\ HasAlert(active_alerts, q)
                  /\ ~HasAlert(clocal[r].active_alerts, q))
                 => /\ ~HasAlert(active_alerts', q)
                    /\ HasAlert(active_alerts', r) ]_vars

\* Both requests have been answered; the counter says 1 after two runs, and
\* request 1 is missing from the history list and from the alert list.
C25_Witness ==
    /\ \A r \in Requests : cpc[r] = "answered"
    /\ daily_summary.total_count = 1
    /\ stored_analyses = {1, 2}
    /\ historical_analyses = <<2>>
    /\ active_alerts = <<AlertOf(2)>>

-----------------------------------------------------------------------------
(* C26 *)

\* C26: every alert created from an assessment is handed to sendNotification
\* while the same analysis request is handled: when the request is answered,
\* sendNotification has been called at least once for each alert of the
\* request that is in active_alerts.
C26_AlertsHandedToSendNotification ==
    pc = "responded" =>
       sends >= Cardinality({ i \in 1..Len(active_alerts) :
                                active_alerts[i].analysis_id = analysis.analysis_id })

-----------------------------------------------------------------------------
(* C27 *)

\* C27: the quality gate of the analysis endpoint can reject.  Some upload
\* gets metadata from preprocessAudio for which validateForFrogAnalysis says
\* suitable = false, and every upload that is not suitable is answered with
\* 400 and its warnings at the gate and is never handed on to the denoising.
C27_QualityGateCanReject ==
    /\ \E u \in Uploads :
          /\ detectAudioFormat(u) # "RangeError"
          /\ ~validateForFrogAnalysis(preprocessAudio(u).metadata).suitable
    /\ (validation.stage = "denoising" => validation.suitable)
    /\ (validation.stage = "answered" /\ validation.status # 500 =>
           /\ ~validation.suitable
           /\ validation.status = 400
           /\ Len(validation.warnings) > 0)

-----------------------------------------------------------------------------
(* C28 *)

\* C28: testConnection makes at most maxRetries + 1 = 4 requests to the
\* language service, and the number of attempts it reports is the number of
\* requests it made, whatever the service does.
C28_AtMostFourRequestsHonestlyCounted ==
    /\ (gpc \in {"test_request", "test_sleeping", "test_returned"} =>
           requests <= maxRetries + 1)
    /\ (gpc = "test_returned" /\ testResult.hasAttempts =>
           testResult.attempts = requests)

-----------------------------------------------------------------------------
(* C29 *)

\* C29: once processAudio has stored an assessment and the store did not
\* fail, getAnalysisHistory(limit) with limit >= 1 returns at most "limit"
\* assessments, newest first, and the first of them is that assessment.
C29_HistoryReturnsTheStoredAssessment ==
    /\ pc \in {"alerts", "done", "returned", "responded"}
    /\ "Failed to store historical analysis" \notin errorLog
    => \A limit \in {1, 10, RecentCap} :
          LET history == getAnalysisHistory(limit)
          IN  /\ Len(history) >= 1
              /\ Len(history) <= limit
              /\ history[1] = analysis.analysis_id

-----------------------------------------------------------------------------
(* C30 *)

\* C30: when sendNotification is suppressed neither by quiet hours nor by a
\* disabled category, every enabled channel of the preferences is in exactly
\* one of sent and failed, and a channel is in sent only if its payload was
\* written to the in-app log or handed to a delivery provider.
C30_SentMeansDelivered ==
    /\ npc = "returned"
    /\ ~(isInQuietHours(call.preferences, call.now) /\ call.payload.severity # "critical")
    /\ isAlertTypeEnabled(call.payload.type, call.preferences)
    => LET channels == call.preferences.channels
           InSent(t) == \E n \in 1..Len(result.sent) : result.sent[n] = t
           InFailed(t) == \E n \in 1..Len(result.failed) : result.failed[n] = t
       IN  /\ \A j \in 1..Len(channels) :
                channels[j].enabled =>
                   /\ InSent(channels[j].type) \/ InFailed(channels[j].type)
                   /\ ~(InSent(channels[j].type) /\ InFailed(channels[j].type))
           /\ \A n \in 1..Len(result.sent) :
                \E k \in 1..Len(attempts) :
                   /\ attempts[k].type = result.sent[n]
                   /\ Delivered(attempts[k])

=============================================================================
